---- MODULE Spec2Model ----
(***************************************************************************)
(* Model of dev.py, the development-environment command-line wrapper.      *)
(*                                                                         *)
(* Text is modelled as a sequence of one-character strings, so that        *)
(* trimming, lower-casing, splitting and substring search are computed     *)
(* character by character as the Python string methods compute them.       *)
(***************************************************************************)
EXTENDS Integers, Sequences, FiniteSets, TLC

----------------------------------------------------------------------------
(* Bounds of the model *)

\* longest list of related_services of a registry entry
MaxRelated == 1
\* longest list of setup_steps of a registry entry
MaxSteps == 2
\* longest captured standard output handed to run_command
MaxOut == 3
\* most lines of an environment file
MaxLines == 2
\* longest text put around a candidate value of is_placeholder_value
MaxPad == 1

----------------------------------------------------------------------------
(* Python string methods *)

Whitespace == {" ", "\t", "\n"}

RECURSIVE LStrip(_)
LStrip(s) == IF s # <<>> /\ Head(s) \in Whitespace THEN LStrip(Tail(s)) ELSE s

RECURSIVE RStrip(_)
RStrip(s) ==
    IF s # <<>> /\ s[Len(s)] \in Whitespace
    THEN RStrip(SubSeq(s, 1, Len(s) - 1))
    ELSE s

\* str.strip(): whitespace removed at both ends
Strip(s) == RStrip(LStrip(s))

UpperLetters == <<"A", "B", "C", "D", "E", "F", "G", "H", "I", "J", "K", "L", "M", "N", "O", "P", "Q", "R", "S", "T", "U", "V", "W", "X", "Y", "Z">>
LowerLetters == <<"a", "b", "c", "d", "e", "f", "g", "h", "i", "j", "k", "l", "m", "n", "o", "p", "q", "r", "s", "t", "u", "v", "w", "x", "y", "z">>

LowerChar(c) ==
    IF \E k \in 1..26 : UpperLetters[k] = c
    THEN LowerLetters[CHOOSE k \in 1..26 : UpperLetters[k] = c]
    ELSE c

\* str.lower()
Lower(s) == [k \in 1..Len(s) |-> LowerChar(s[k])]

\* sub in s
Contains(sub, s) ==
    \E k \in 0..(Len(s) - Len(sub)) : SubSeq(s, k + 1, k + Len(sub)) = sub

\* s.startswith(c) and s.endswith(c) for a one-character c
StartsWith(s, c) == s # <<>> /\ s[1] = c
EndsWith(s, c) == s # <<>> /\ s[Len(s)] = c

\* position of the first c in s, 0 when there is none
IndexOf(s, c) ==
    IF \E k \in 1..Len(s) : s[k] = c
    THEN CHOOSE k \in 1..Len(s) : s[k] = c /\ \A j \in 1..(k - 1) : s[j] # c
    ELSE 0

----------------------------------------------------------------------------
(* run_command *)

\* Python values a command runner returns: a bool or a str
BoolV(b) == [tag |-> "bool", bool |-> b, str |-> <<>>]
StrV(s) == [tag |-> "str", bool |-> FALSE, str |-> s]

\* truth value of a bool or a str
Truthy(v) == IF v.tag = "bool" THEN v.bool ELSE v.str # <<>>

\* v is False
IsFalse(v) == v.tag = "bool" /\ ~v.bool

\* proc is what the external process did: its exit status, its standard
\* output and its standard error
Proc(rc, stdout, stderr) == [rc |-> rc, stdout |-> stdout, stderr |-> stderr]

\* run_command with rstrip() in place of strip()
RunCommand_RStrip(proc, check, capture_output) ==
    IF check /\ proc.rc # 0
    THEN BoolV(FALSE)
    ELSE IF capture_output
         THEN StrV(RStrip(proc.stdout))
         ELSE BoolV(proc.rc = 0)

RunCommand(proc, check, capture_output) ==
    IF check /\ proc.rc # 0
    THEN BoolV(FALSE)
    ELSE IF capture_output
         THEN StrV(Strip(proc.stdout))
         ELSE BoolV(proc.rc = 0)

\* the error text run_command prints itself
RunCommandPrints(proc, check, capture_output) ==
    IF check /\ proc.rc # 0 /\ capture_output /\ proc.stderr # <<>>
    THEN <<proc.stderr>>
    ELSE <<>>

----------------------------------------------------------------------------
(* load_env_file *)

\* an absent file, and a file holding text
NoFile == [exists |-> FALSE, text |-> <<>>]
File(text) == [exists |-> TRUE, text |-> text]

\* the lines "for line in f" yields, each with its line end
RECURSIVE SplitLines(_)
SplitLines(t) ==
    IF t = <<>>
    THEN <<>>
    ELSE LET n == IndexOf(t, "\n")
         IN  IF n = 0
             THEN <<t>>
             ELSE <<SubSeq(t, 1, n)>> \o SplitLines(SubSeq(t, n + 1, Len(t)))

\* a dict is a function from its keys; d[key] = value
EmptyDict == [k \in {} |-> <<>>]
DictSet(d, key, value) ==
    [k \in DOMAIN d \cup {key} |-> IF k = key THEN value ELSE d[k]]
\* a lookup that never finds the key
DictGet_AlwaysDefault(d, key, default) == default

\* d.get(key, default)
DictGet(d, key, default) == IF key \in DOMAIN d THEN d[key] ELSE default

\* "Remove surrounding quotes if present"
Unquote(value) ==
    IF StartsWith(value, "\"") /\ EndsWith(value, "\"")
    THEN SubSeq(value, 2, Len(value) - 1)
    ELSE IF StartsWith(value, "'") /\ EndsWith(value, "'")
         THEN SubSeq(value, 2, Len(value) - 1)
         ELSE value

\* the body of the loop over the lines of the file
EnvLine(env_vars, rawline) ==
    LET line == Strip(rawline)
    IN  IF line = <<>> \/ StartsWith(line, "#")
        THEN env_vars
        ELSE IF Contains(<<"=">>, line)
             THEN LET n == IndexOf(line, "=")
                      key == Strip(SubSeq(line, 1, n - 1))
                      value == Strip(SubSeq(line, n + 1, Len(line)))
                  IN  DictSet(env_vars, key, Unquote(value))
             ELSE env_vars

RECURSIVE EnvLines(_, _)
EnvLines(env_vars, lines) ==
    IF lines = <<>>
    THEN env_vars
    ELSE EnvLines(EnvLine(env_vars, Head(lines)), Tail(lines))

LoadEnvFile(file) ==
    IF ~file.exists THEN EmptyDict ELSE EnvLines(EmptyDict, SplitLines(file.text))

----------------------------------------------------------------------------
(* is_placeholder_value *)

placeholder_indicators ==
    << <<"y", "o", "u", "r", "u", "s", "e", "r", "n", "a", "m", "e">>,
       <<"y", "o", "u", "r", "-", "u", "s", "e", "r", "n", "a", "m", "e">>,
       <<"p", "l", "a", "c", "e", "h", "o", "l", "d", "e", "r">>,
       <<"e", "x", "a", "m", "p", "l", "e", ".", "c", "o", "m">>,
       <<"c", "h", "a", "n", "g", "e", "m", "e">>,
       <<"c", "h", "a", "n", "g", "e", "-", "m", "e">> >>

\* is_placeholder_value without the lower()
IsPlaceholderValue_CaseSensitive(value) ==
    IF value = <<>>
    THEN TRUE
    ELSE \E n \in 1..Len(placeholder_indicators) :
             Contains(placeholder_indicators[n], value)

IsPlaceholderValue(value) ==
    IF value = <<>>
    THEN TRUE
    ELSE LET value_lower == Lower(value)
         IN  \E n \in 1..Len(placeholder_indicators) :
                 Contains(placeholder_indicators[n], value_lower)

----------------------------------------------------------------------------
(* load_projects_config and the registry file *)

backend == <<"b", "a", "c", "k", "e", "n", "d">>
ghost == <<"g", "h", "o", "s", "t">>
php == <<"p", "h", "p">>
db == <<"d", "b">>
cache == <<"c", "a", "c", "h", "e">>
app == <<"a", "p", "p">>
src == <<"s", "r", "c">>
app_backend == <<"a", "p", "p", "-", "b", "a", "c", "k", "e", "n", "d">>
migrate == <<"m", "i", "g", "r", "a", "t", "e">>
seed == <<"s", "e", "e", "d">>
warm == <<"w", "a", "r", "m">>
REPO == <<"R", "E", "P", "O">>
RealUrl == <<"g", "i", "t", "@", "h", "o", "s", "t", ":", "o", "r", "g", "/", "r", "e", "p", "o", ".", "g", "i", "t">>
TemplateUrl == <<"g", "i", "t", "@", "g", "i", "t", "h", "u", "b", ".", "c", "o", "m", ":", "Y", "o", "u", "r", "U", "s", "e", "r", "N", "a", "m", "e", "/", "r", "e", "p", "o", ".", "g", "i", "t">>

\* the services and the setup steps a registry entry may declare
RelatedPool == <<db, cache, php>>
StepPool == <<migrate, seed, warm, migrate>>

\* an entry that sets every field
FullEntry(related, steps) ==
    [name |-> <<"B", "a", "c", "k", "e", "n", "d">>, repo_env_var |-> REPO,
     directory |-> <<"p", "r", "o", "j", "e", "c", "t", "s", "/", "b", "a", "c", "k", "e", "n", "d">>, container |-> app_backend,
     repo_subdir |-> src, compose_service |-> php,
     related_services |-> related, setup_steps |-> steps]

\* an entry that sets the required fields only
MinimalEntry ==
    [name |-> <<"B", "a", "c", "k", "e", "n", "d">>, repo_env_var |-> REPO,
     directory |-> <<"p", "r", "o", "j", "e", "c", "t", "s", "/", "b", "a", "c", "k", "e", "n", "d">>, container |-> app_backend]

Entries ==
    {FullEntry(SubSeq(RelatedPool, 1, r), SubSeq(StepPool, 1, n)) :
        r \in 0..MaxRelated, n \in 0..MaxSteps} \cup {MinimalEntry}

\* projects.yml: absent, not parseable, an empty document, a document
\* without the projects key, or a document with it
RegistryFiles ==
    {[state |-> st, projects |-> EmptyDict] :
        st \in {"missing", "malformed", "empty", "nokey", "ok"}}
    \cup {[state |-> "ok", projects |-> [p \in {backend} |-> e]] : e \in Entries}

None == [projects |-> EmptyDict, none |-> TRUE]

\* load_projects_config falling back to a built-in registry when the file
\* is missing
LoadProjectsConfig_Default(config_file) ==
    IF config_file.state = "missing"
    THEN [projects |-> [p \in {backend} |-> MinimalEntry], none |-> FALSE]
    ELSE IF config_file.state = "malformed" THEN None
    ELSE IF config_file.state \in {"empty", "nokey"} THEN None
    ELSE [projects |-> config_file.projects, none |-> FALSE]

LoadProjectsConfig(config_file) ==
    IF config_file.state = "missing" THEN None
    ELSE IF config_file.state = "malformed" THEN None
    ELSE IF config_file.state \in {"empty", "nokey"} THEN None
    ELSE [projects |-> config_file.projects, none |-> FALSE]

\* what load_projects_config reports
LoadProjectsConfigPrints(config_file) ==
    IF config_file.state = "missing"
    THEN <<[lvl |-> "error", msg |-> "projects.yml not found in project root",
            num |-> 0, total |-> 0, arg |-> <<>>],
           [lvl |-> "info", msg |-> "Please ensure projects.yml exists with project configuration",
            num |-> 0, total |-> 0, arg |-> <<>>]>>
    ELSE IF config_file.state = "malformed"
    THEN <<[lvl |-> "error", msg |-> "Error parsing projects.yml",
            num |-> 0, total |-> 0, arg |-> <<>>]>>
    ELSE IF config_file.state \in {"empty", "nokey"}
    THEN <<[lvl |-> "error", msg |-> "Invalid projects.yml format - missing 'projects' key",
            num |-> 0, total |-> 0, arg |-> <<>>]>>
    ELSE <<>>

\* "not projects_config"
NoProjects(projects_config) ==
    projects_config.none \/ DOMAIN projects_config.projects = {}

\* project_config.get(field, default)
Field(project_config, field, default) ==
    IF field \in DOMAIN project_config THEN project_config[field] ELSE default

----------------------------------------------------------------------------
(* State *)

VARIABLES
    command,      \* args.command
    project,      \* args.project
    force,        \* args.force
    host,         \* the container engine on this machine
    regFile,      \* projects.yml
    envFile,      \* .env
    fs,           \* which of mount_point and repo_dir exist
    pc,           \* position of the program
    compose_cmd,  \* COMPOSE_CMD
    repo_url,     \* cmd_setup's repo_url
    i,            \* index of the running loop
    log,          \* external actions performed, in order
    out,          \* messages reported, in order
    ret,          \* what the command function returned
    exitStatus,   \* exit status of the process, -1 while it runs
    aliasFile,    \* ~/.bash_aliases
    bashrc,       \* ~/.bashrc
    aliasTemplate, \* the aliases file of the project root
    envExample,   \* .env.example
    symfonyDir,   \* projects/symfony-api: "absent", "empty" or "code"
    vueDir,       \* projects/ape-management-frontend, likewise
    run,          \* number of this invocation of the program
    prev,         \* the invocation before this one, <<>> when there is none
    hpc,          \* position of a function under test
    hin,          \* its arguments
    hout          \* its result

homeVars == <<aliasFile, bashrc, aliasTemplate, envExample, symfonyDir, vueDir>>
histVars == <<run, prev>>
progVars == <<command, project, force, host, regFile, envFile, fs, pc,
              compose_cmd, repo_url, i, log, out, ret, exitStatus,
              aliasFile, bashrc, aliasTemplate, envExample, symfonyDir, vueDir,
              run, prev>>
harnessVars == <<hpc, hin, hout>>
vars == <<command, project, force, host, regFile, envFile, fs, pc,
          compose_cmd, repo_url, i, log, out, ret, exitStatus,
          aliasFile, bashrc, aliasTemplate, envExample, symfonyDir, vueDir,
          run, prev, hpc, hin, hout>>

\* an entry of log
Act(kind, arg, ok) == [arg |-> arg, kind |-> kind, ok |-> ok]

\* entries of out
Say(lvl, msg) == [lvl |-> lvl, msg |-> msg, num |-> 0, total |-> 0, arg |-> <<>>]
SayA(lvl, msg, arg) == [lvl |-> lvl, msg |-> msg, num |-> 0, total |-> 0, arg |-> arg]
SayN(lvl, msg, n, total, arg) ==
    [lvl |-> lvl, msg |-> msg, num |-> n, total |-> total, arg |-> arg]

----------------------------------------------------------------------------
(* The container engine *)

Hosts == [docker : BOOLEAN, daemon : BOOLEAN, plugin : BOOLEAN, legacy : BOOLEAN]
HostGood == [docker |-> TRUE, daemon |-> TRUE, plugin |-> TRUE, legacy |-> FALSE]

\* what "docker ps" does: a listing when the daemon answers, otherwise an
\* error on standard error and a non-zero exit status
DockerPsProc(h) ==
    IF h.docker /\ h.daemon
    THEN Proc(0, <<"C", "O", "N", "T", "A", "I", "N", "E", "R", " ", "I", "D", "\n">>, <<>>)
    ELSE Proc(1, <<>>, <<"C", "a", "n", "n", "o", "t", " ", "c", "o", "n", "n", "e", "c", "t", " ", "t", "o", " ", "t", "h", "e", " ", "D", "o", "c", "k", "e", "r", " ", "d", "a", "e", "m", "o", "n", "\n">>)

\* what "docker compose version" does
ComposeVersionProc(h) ==
    IF h.docker /\ h.plugin
    THEN Proc(0, <<"D", "o", "c", "k", "e", "r", " ", "C", "o", "m", "p", "o", "s", "e", " ", "v", "e", "r", "s", "i", "o", "n", " ", "v", "2", "\n">>, <<>>)
    ELSE Proc(1, <<>>, <<"n", "o", "t", " ", "a", " ", "d", "o", "c", "k", "e", "r", " ", "c", "o", "m", "m", "a", "n", "d", "\n">>)

CheckDocker(h) ==
    IF ~h.docker
    THEN FALSE
    ELSE IF IsFalse(RunCommand(DockerPsProc(h), FALSE, TRUE))
         THEN FALSE
         ELSE TRUE

CheckDockerCompose(h) ==
    IF Truthy(RunCommand(ComposeVersionProc(h), FALSE, TRUE))
    THEN "docker compose"
    ELSE IF h.legacy
         THEN "docker-compose"
         ELSE "None"

----------------------------------------------------------------------------
(* Initial states of a run of the program *)

Commands == {"none", "bogus", "status", "start", "stop", "restart", "setup"}

EnvFiles ==
    { NoFile,
      File(<<"R", "E", "P", "O", "=", "g", "i", "t", "@", "h", "o", "s", "t", ":", "o", "r", "g", "/", "r", "e", "p", "o", ".", "g", "i", "t", "\n">>),
      File(<<"#", " ", "r", "e", "p", "o", "s", "i", "t", "o", "r", "i", "e", "s", "\n", "R", "E", "P", "O", " ", "=", " ", "\"", "g", "i", "t", "@", "g", "i", "t", "h", "u", "b", ".", "c", "o", "m", ":", "Y", "o", "u", "r", "U", "s", "e", "r", "N", "a", "m", "e", "/", "r", "e", "p", "o", ".", "g", "i", "t", "\"", "\n">>) }

FileSystems ==
    {[mount |-> FALSE, repo |-> FALSE], [mount |-> TRUE, repo |-> FALSE],
     [mount |-> TRUE, repo |-> TRUE]}

\* what the user may type at the repository URL prompt
UrlAnswers ==
    { <<>>, <<" ", " ">>, <<" ", "g", "i", "t", "@", "h", "o", "s", "t", ":", "o", "r", "g", "/", "r", "e", "p", "o", ".", "g", "i", "t", " ">>, <<"h", "t", "t", "p", "s", ":", "/", "/", "e", "x", "a", "m", "p", "l", "e", ".", "c", "o", "m", "/", "r", ".", "g", "i", "t">> }

\* what the user may type at a "Continue?" prompt
ConfirmAnswers == { <<"y">>, <<" ", "Y", " ">>, <<>>, <<"n">>, <<"y", "e", "s">> }

\* exit statuses of an external command
ExitCodes == {0, 1}

\* what the readiness check's "docker ps --filter ..." may do
CheckProcs(container_name) ==
    { Proc(1, <<>>, <<"e", "r", "r", "o", "r", "\n">>),
      Proc(0, <<>>, <<>>),
      Proc(0, <<"o", "t", "h", "e", "r", "\n">>, <<>>),
      Proc(0, container_name \o <<"\n">>, <<>>) }

\* a machine on which neither init nor aliases has been run, at the first
\* invocation of the program
FreshHome ==
    /\ aliasFile = NoFile
    /\ bashrc = NoFile
    /\ aliasTemplate = NoFile
    /\ envExample = NoFile
    /\ symfonyDir = "absent"
    /\ vueDir = "absent"
    /\ run = 1
    /\ prev = <<>>

ProgInit ==
    /\ FreshHome
    /\ pc = "main"
    /\ compose_cmd = "None"
    /\ repo_url = <<>>
    /\ i = 0
    /\ log = <<>>
    /\ out = <<>>
    /\ ret = "None"
    /\ exitStatus = -1
    /\ \/ /\ command \in Commands
          /\ host \in Hosts
          /\ project = backend
          /\ force = FALSE
          /\ regFile = [state |-> "ok",
                        projects |-> [p \in {backend} |-> FullEntry(<<>>, <<migrate>>)]]
          /\ envFile = File(<<"R", "E", "P", "O", "=", "g", "i", "t", "@", "h", "o", "s", "t", ":", "o", "r", "g", "/", "r", "e", "p", "o", ".", "g", "i", "t", "\n">>)
          /\ fs = [mount |-> TRUE, repo |-> FALSE]
       \/ /\ command = "setup"
          /\ host = HostGood
          /\ project \in {backend, ghost}
          /\ force \in BOOLEAN
          /\ regFile \in RegistryFiles
          /\ envFile \in EnvFiles
          /\ fs \in FileSystems

HarnessOff ==
    /\ hpc = "off"
    /\ hin = <<>>
    /\ hout = <<>>

Init == ProgInit /\ HarnessOff

----------------------------------------------------------------------------
(* __main__ *)

\* exit status __main__ leaves with before dispatch, -1 when it dispatches
MainExit(cmd, h) ==
    IF cmd = "bogus" THEN 2
    ELSE IF cmd = "none" THEN 1
    ELSE IF cmd # "aliases" /\ ~CheckDocker(h) THEN 1
    ELSE IF cmd \notin {"aliases"} /\ CheckDockerCompose(h) = "None" THEN 1
    ELSE -1

\* the commands __main__ runs before dispatch
MainLog(cmd, h) ==
    IF cmd \in {"bogus", "none"} THEN <<>>
    ELSE IF cmd # "aliases" /\ ~h.docker THEN <<>>
    ELSE (IF cmd # "aliases"
          THEN <<Act("docker_ps", <<>>, DockerPsProc(h).rc = 0)>>
          ELSE <<>>)
         \o (IF cmd # "aliases" /\ ~CheckDocker(h)
             THEN <<>>
             ELSE <<Act("compose_version", <<>>, ComposeVersionProc(h).rc = 0)>>)

\* what __main__ reports before dispatch
MainOut(cmd, h) ==
    IF cmd \in {"bogus", "none"} THEN <<Say("usage", "usage")>>
    ELSE IF cmd # "aliases" /\ ~h.docker
    THEN <<Say("error", "Docker is not installed!"),
           Say("info", "Please install Docker: https://docs.docker.com/get-docker/")>>
    ELSE IF cmd # "aliases" /\ ~CheckDocker(h)
    THEN <<Say("error", "Docker daemon is not running!"),
           Say("info", "Please start Docker and try again.")>>
    ELSE IF CheckDockerCompose(h) = "None"
    THEN <<Say("error", "Docker Compose is not available!")>>
    ELSE <<>>

Main ==
    /\ pc = "main"
    /\ log' = log \o MainLog(command, host)
    /\ out' = out \o MainOut(command, host)
    /\ IF MainExit(command, host) # -1
       THEN /\ pc' = "exited"
            /\ exitStatus' = MainExit(command, host)
            /\ UNCHANGED compose_cmd
       ELSE /\ pc' = "dispatch"
            /\ compose_cmd' = CheckDockerCompose(host)
            /\ UNCHANGED exitStatus
    /\ UNCHANGED <<command, project, force, host, regFile, envFile, fs,
                   repo_url, i, ret, hpc, hin, hout,
                   homeVars, histVars>>

\* the script ends after the routed command function returns
Exit ==
    /\ pc = "returned"
    /\ pc' = "exited"
    /\ exitStatus' = 0
    /\ UNCHANGED <<command, project, force, host, regFile, envFile, fs,
                   compose_cmd, repo_url, i, log, out, ret, hpc, hin, hout,
                   homeVars, histVars>>

----------------------------------------------------------------------------
(* Lifecycle commands *)

\* a command function made of one orchestration command run with check=True
OneCommand(name, kind, header, good, bad) ==
    /\ pc = "dispatch"
    /\ command = name
    /\ \E rc \in ExitCodes :
        LET ok == Truthy(RunCommand(Proc(rc, <<>>, <<>>), TRUE, FALSE))
        IN  /\ log' = Append(log, Act(kind, <<>>, ok))
            /\ out' = out \o <<Say("header", header)>>
                          \o (IF ok THEN good ELSE <<Say("error", bad)>>)
            /\ ret' = IF ok THEN "True" ELSE "False"
    /\ pc' = "returned"
    /\ UNCHANGED <<command, project, force, host, regFile, envFile, fs,
                   compose_cmd, repo_url, i, exitStatus, hpc, hin, hout,
                   homeVars, histVars>>

CmdStart ==
    OneCommand("start", "compose_start", "Starting Containers",
               <<Say("success", "All containers started successfully!"),
                 Say("info", "Access Vue Frontend at: http://ape-management.andrei.dev.uk"),
                 Say("info", "Access Symfony API at: http://ape-management.api.andrei.dev.uk"),
                 Say("info", "Access phpMyAdmin at: http://phpmyadmin.andrei.dev.uk"),
                 Say("info", "Access Dozzle (Logs) at: http://dozzle.andrei.dev.uk"),
                 Say("info", "Access Traefik Dashboard at: http://traefik.andrei.dev.uk")>>,
               "Failed to start containers")

CmdStop ==
    OneCommand("stop", "compose_stop", "Stopping Containers",
               <<Say("success", "All containers stopped successfully!")>>,
               "Failed to stop containers")

CmdRestart ==
    OneCommand("restart", "compose_restart", "Restarting Containers",
               <<Say("success", "All containers restarted successfully!")>>,
               "Failed to restart containers")

\* a status command that leaves an empty .env behind when there was none
CmdStatus_SavesEnv ==
    /\ pc = "dispatch"
    /\ command = "status"
    /\ \E rc \in ExitCodes :
        LET ok == Truthy(RunCommand(Proc(rc, <<>>, <<>>), TRUE, FALSE))
        IN  log' = Append(log, Act("compose_ps", <<>>, ok))
    /\ out' = Append(out, Say("header", "Container Status"))
    /\ ret' = "True"
    /\ pc' = "returned"
    /\ envFile' = IF envFile.exists THEN envFile ELSE File(<<>>)
    /\ UNCHANGED <<command, project, force, host, regFile, fs,
                   compose_cmd, repo_url, i, exitStatus, hpc, hin, hout,
                   homeVars, histVars>>

CmdStatus ==
    /\ pc = "dispatch"
    /\ command = "status"
    /\ \E rc \in ExitCodes :
        LET ok == Truthy(RunCommand(Proc(rc, <<>>, <<>>), TRUE, FALSE))
        IN  log' = Append(log, Act("compose_ps", <<>>, ok))
    /\ out' = Append(out, Say("header", "Container Status"))
    /\ ret' = "True"
    /\ pc' = "returned"
    /\ UNCHANGED <<command, project, force, host, regFile, envFile, fs,
                   compose_cmd, repo_url, i, exitStatus, hpc, hin, hout,
                   homeVars, histVars>>

----------------------------------------------------------------------------
(* cmd_setup *)

\* a poll of one attempt more
max_retries_Sixteen == 15 + 1

max_retries == 15

\* the locals cmd_setup reads from the registry entry of the project
project_config == LoadProjectsConfig(regFile).projects[project]
project_display_name == project_config.name
repo_env_var == project_config.repo_env_var
repo_subdir == Field(project_config, "repo_subdir", app)
container_name == project_config.container
compose_service == Field(project_config, "compose_service", project)
related_services == Field(project_config, "related_services", <<>>)
setup_steps == Field(project_config, "setup_steps", <<>>)
\* the related services left out
all_services_OnlyService == <<compose_service>>

all_services == <<compose_service>> \o related_services

\* "return value" of the command function
Return(value) ==
    /\ pc' = "returned"
    /\ ret' = value

\* the stop loop left out when no confirmation is needed
AfterUrl_SkipsStops == IF fs.repo /\ ~force THEN "confirm" ELSE IF fs.repo THEN "rmtree" ELSE "clone"

\* a confirmation asked for whenever the force flag is unset
AfterUrl_AlwaysAsks == IF ~force THEN "confirm" ELSE "stop"

\* where cmd_setup goes once it holds a repository URL
AfterUrl == IF fs.repo /\ ~force THEN "confirm" ELSE "stop"

\* where cmd_setup goes after the last stop
\* the removal step left out
AfterStops_SkipRemoval == "clone"

\* the removal left out when the force flag is set
AfterStops_ForceKeeps == IF fs.repo /\ ~force THEN "rmtree" ELSE "clone"

AfterStops == IF fs.repo THEN "rmtree" ELSE "clone"

\* repo_dir.exists(), as the file system answers it
ExistsCheck == <<Act("exists", repo_subdir, fs.repo)>>

\* confirm == 'y' for what was typed at a "Continue?" prompt
\* any answer that starts with y taken for a yes
Confirmed_Prefix(answer) == StartsWith(Lower(Strip(answer)), "y")

Confirmed(answer) == Lower(Strip(answer)) = <<"y">>

\* "if not run_command(cmd, check=False)" of the loop over the setup steps
\* the result of a setup step not looked at
StepAborts_Never(ok) == FALSE

StepAborts(ok) == ~ok

\* load the registry and the environment file, up to the first prompt
SetupBegin ==
    /\ pc = "dispatch"
    /\ command = "setup"
    /\ LET projects_config == LoadProjectsConfig(regFile)
           header == <<SayA("header", "Project Setup", project)>>
                        \o LoadProjectsConfigPrints(regFile)
       IN  IF NoProjects(projects_config)
           THEN /\ out' = out \o header
                /\ Return("False")
                /\ UNCHANGED <<repo_url, i, log>>
           ELSE IF project \notin DOMAIN projects_config.projects
           THEN /\ out' = out \o header
                        \o <<SayA("error", "Unknown project", project),
                             Say("info", "Available projects")>>
                /\ Return("False")
                /\ UNCHANGED <<repo_url, i, log>>
           ELSE \E env_vars \in {LoadEnvFile(envFile)} :
                \E url \in {DictGet(env_vars, repo_env_var, <<>>)} :
                    /\ out' = out \o header
                             \o <<SayA("info", "Setting up", project_display_name)>>
                    /\ repo_url' = url
                    /\ IF url = <<>> \/ IsPlaceholderValue(url)
                       THEN pc' = "url_prompt" /\ UNCHANGED <<i, log>>
                       ELSE /\ pc' = AfterUrl
                            /\ i' = 1
                            /\ log' = log \o ExistsCheck
                    /\ UNCHANGED ret
    /\ UNCHANGED <<command, project, force, host, regFile, envFile, fs,
                   compose_cmd, exitStatus, hpc, hin, hout,
                   homeVars, histVars>>

\* a prompt whose answer is refused when it looks like a placeholder
SetupUrlPrompt_Rechecks ==
    /\ pc = "url_prompt"
    /\ \E answer \in UrlAnswers :
        LET typed == Strip(answer)
            asked == <<SayA("warning", "not set or contains placeholder value", repo_env_var),
                       SayA("info", "Please enter the repository URL for", project_display_name)>>
        IN  /\ repo_url' = typed
            /\ IF typed = <<>> \/ IsPlaceholderValue(typed)
               THEN /\ out' = out \o asked
                            \o <<Say("error", "No repository URL provided"),
                                 SayA("info", "Set in .env file or provide URL when prompted",
                                      repo_env_var)>>
                    /\ log' = Append(log, Act("input_url", answer, TRUE))
                    /\ Return("False")
                    /\ UNCHANGED i
               ELSE /\ out' = out \o asked
                    /\ log' = log \o <<Act("input_url", answer, TRUE)>> \o ExistsCheck
                    /\ pc' = AfterUrl
                    /\ i' = 1
                    /\ UNCHANGED ret
    /\ UNCHANGED <<command, project, force, host, regFile, envFile, fs,
                   compose_cmd, exitStatus, hpc, hin, hout,
                   homeVars, histVars>>

\* the repository URL prompt
SetupUrlPrompt ==
    /\ pc = "url_prompt"
    /\ \E answer \in UrlAnswers :
        LET typed == Strip(answer)
            asked == <<SayA("warning", "not set or contains placeholder value", repo_env_var),
                       SayA("info", "Please enter the repository URL for", project_display_name)>>
        IN  /\ repo_url' = typed
            /\ IF typed = <<>>
               THEN /\ out' = out \o asked
                            \o <<Say("error", "No repository URL provided"),
                                 SayA("info", "Set in .env file or provide URL when prompted",
                                      repo_env_var)>>
                    /\ log' = Append(log, Act("input_url", answer, TRUE))
                    /\ Return("False")
                    /\ UNCHANGED i
               ELSE /\ out' = out \o asked
                    /\ log' = log \o <<Act("input_url", answer, TRUE)>> \o ExistsCheck
                    /\ pc' = AfterUrl
                    /\ i' = 1
                    /\ UNCHANGED ret
    /\ UNCHANGED <<command, project, force, host, regFile, envFile, fs,
                   compose_cmd, exitStatus, hpc, hin, hout,
                   homeVars, histVars>>

\* the confirmation prompt before the repository directory is deleted
SetupConfirm ==
    /\ pc = "confirm"
    /\ \E answer \in ConfirmAnswers :
        LET asked == <<SayA("warning", "Repository directory already exists", repo_subdir),
                       Say("info", "This will DELETE the repository and re-clone it. Any uncommitted changes will be lost.")>>
        IN  /\ log' = Append(log, Act("input_confirm", answer, TRUE))
            /\ IF ~Confirmed(answer)
               THEN /\ out' = out \o asked \o <<Say("info", "Setup cancelled")>>
                    /\ Return("False")
               ELSE /\ out' = out \o asked
                    /\ pc' = "stop"
                    /\ UNCHANGED ret
    /\ UNCHANGED <<command, project, force, host, regFile, envFile, fs,
                   compose_cmd, repo_url, i, exitStatus, hpc, hin, hout,
                   homeVars, histVars>>

\* one iteration of the loop that stops the services
SetupStop ==
    /\ pc = "stop"
    /\ \E rc \in ExitCodes :
        LET ok == Truthy(RunCommand(Proc(rc, <<>>, <<>>), FALSE, FALSE))
        IN  log' = Append(log, Act("stop", all_services[i], ok))
                    \o (IF i < Len(all_services) THEN <<>> ELSE ExistsCheck)
    /\ out' = out \o (IF i = 1 THEN <<Say("info", "Stopping containers")>> ELSE <<>>)
    /\ IF i < Len(all_services)
       THEN pc' = "stop" /\ i' = i + 1
       ELSE pc' = AfterStops /\ i' = 1
    /\ UNCHANGED <<command, project, force, host, regFile, envFile, fs,
                   compose_cmd, repo_url, ret, exitStatus, hpc, hin, hout,
                   homeVars, histVars>>

\* shutil.rmtree(repo_dir)
SetupRmtree ==
    /\ pc = "rmtree"
    /\ \E outcome \in {"removed", "PermissionError", "Exception"} :
        LET removing == <<SayA("info", "Removing repository directory", repo_subdir)>>
        IN  /\ log' = Append(log, Act("rmtree", repo_subdir, outcome = "removed"))
            /\ IF outcome = "removed"
               THEN /\ fs' = [fs EXCEPT !.repo = FALSE]
                    /\ out' = out \o removing \o <<Say("success", "Directory removed")>>
                    /\ pc' = "clone"
                    /\ UNCHANGED ret
               ELSE IF outcome = "PermissionError"
               THEN /\ out' = out \o removing
                            \o <<Say("warning", "Permission error - cleaning up via Docker...")>>
                    /\ pc' = "cleanup"
                    /\ UNCHANGED <<fs, ret>>
               ELSE /\ out' = out \o removing
                            \o <<Say("error", "Failed to remove directory")>>
                    /\ Return("False")
                    /\ UNCHANGED fs
    /\ UNCHANGED <<command, project, force, host, regFile, envFile,
                   compose_cmd, repo_url, i, exitStatus, hpc, hin, hout,
                   homeVars, histVars>>

\* the result of the containerized removal not looked at
SetupCleanup_IgnoresFailure ==
    /\ pc = "cleanup"
    /\ \E rc \in ExitCodes :
        LET ok == Truthy(RunCommand(Proc(rc, <<>>, <<>>), FALSE, FALSE))
        IN  /\ log' = Append(log, Act("cleanup", repo_subdir, ok))
            /\ out' = Append(out, Say("success", "Directory removed via Docker cleanup"))
            /\ fs' = [fs EXCEPT !.repo = ~ok]
            /\ pc' = "clone"
            /\ UNCHANGED ret
    /\ UNCHANGED <<command, project, force, host, regFile, envFile,
                   compose_cmd, repo_url, i, exitStatus, hpc, hin, hout,
                   homeVars, histVars>>

\* the removal through a disposable container
SetupCleanup ==
    /\ pc = "cleanup"
    /\ \E rc \in ExitCodes :
        LET ok == Truthy(RunCommand(Proc(rc, <<>>, <<>>), FALSE, FALSE))
        IN  /\ log' = Append(log, Act("cleanup", repo_subdir, ok))
            /\ IF ~ok
               THEN /\ out' = Append(out, Say("error", "Failed to remove directory even with Docker cleanup"))
                    /\ Return("False")
                    /\ UNCHANGED fs
               ELSE /\ out' = Append(out, Say("success", "Directory removed via Docker cleanup"))
                    /\ fs' = [fs EXCEPT !.repo = FALSE]
                    /\ pc' = "clone"
                    /\ UNCHANGED ret
    /\ UNCHANGED <<command, project, force, host, regFile, envFile,
                   compose_cmd, repo_url, i, exitStatus, hpc, hin, hout,
                   homeVars, histVars>>

\* a failed clone tried again
SetupClone_Retry ==
    /\ pc = "clone"
    /\ \E rc \in ExitCodes :
        LET ok == Truthy(RunCommand(Proc(rc, <<>>, <<>>), TRUE, FALSE))
        IN  /\ log' = log \o <<Act("mkdir", project_config.directory, TRUE),
                               Act("clone", repo_url, ok)>>
            /\ out' = out \o <<SayA("info", "Cloning repository from", repo_url)>>
            /\ fs' = [mount |-> TRUE, repo |-> ok]
            /\ pc' = IF ok THEN "start" ELSE "clone"
            /\ UNCHANGED ret
    /\ UNCHANGED <<command, project, force, host, regFile, envFile,
                   compose_cmd, repo_url, i, exitStatus, hpc, hin, hout,
                   homeVars, histVars>>

\* mount_point.mkdir and git clone; a clone that fails may or may not leave
\* the directory it had begun to fill
SetupClone ==
    /\ pc = "clone"
    /\ \E rc \in ExitCodes, left \in BOOLEAN :
        LET ok == Truthy(RunCommand(Proc(rc, <<>>, <<>>), TRUE, FALSE))
        IN  /\ log' = log \o <<Act("mkdir", project_config.directory, TRUE),
                               Act("clone", repo_url, ok)>>
            /\ IF ~ok
               THEN /\ out' = out \o <<SayA("info", "Cloning repository from", repo_url),
                                       Say("error", "Failed to clone repository")>>
                    /\ fs' = [mount |-> TRUE, repo |-> left]
                    /\ Return("False")
               ELSE /\ out' = out \o <<SayA("info", "Cloning repository from", repo_url),
                                       SayA("success", "Repository cloned to", repo_subdir)>>
                    /\ fs' = [mount |-> TRUE, repo |-> TRUE]
                    /\ pc' = "start"
                    /\ UNCHANGED ret
    /\ UNCHANGED <<command, project, force, host, regFile, envFile,
                   compose_cmd, repo_url, i, exitStatus, hpc, hin, hout,
                   homeVars, histVars>>

\* one iteration of the loop that starts the services
SetupStart ==
    /\ pc = "start"
    /\ \E rc \in ExitCodes :
        LET ok == Truthy(RunCommand(Proc(rc, <<>>, <<>>), FALSE, FALSE))
        IN  log' = Append(log, Act("start", all_services[i], ok))
    /\ out' = out \o (IF i = 1 THEN <<Say("info", "Starting containers")>> ELSE <<>>)
    /\ IF i < Len(all_services)
       THEN pc' = "start" /\ i' = i + 1
       ELSE pc' = "poll" /\ i' = 0
    /\ UNCHANGED <<command, project, force, host, regFile, envFile, fs,
                   compose_cmd, repo_url, ret, exitStatus, hpc, hin, hout,
                   homeVars, histVars>>

\* "result and container_name in str(result)"
ContainerReady(result, name) == Truthy(result) /\ Contains(name, result.str)

\* one iteration of the readiness poll, i counting as range(max_retries) does
SetupPoll ==
    /\ pc = "poll"
    /\ i < max_retries
    /\ \E proc \in CheckProcs(container_name) :
        LET result == RunCommand(proc, TRUE, TRUE)
            ready == ContainerReady(result, container_name)
            waiting == IF i = 0
                       THEN <<SayA("info", "Waiting for container to be ready", container_name)>>
                       ELSE <<>>
        IN  /\ log' = Append(log, Act("check", container_name, ready))
            /\ IF ready
               THEN IF setup_steps = <<>>
                    THEN /\ out' = out \o waiting
                                 \o <<SayA("success", "Container is running", container_name),
                                      SayA("success", "setup complete (no setup steps defined)",
                                           project_display_name)>>
                         /\ Return("True")
                         /\ UNCHANGED i
                    ELSE /\ out' = out \o waiting
                                 \o <<SayA("success", "Container is running", container_name)>>
                         /\ pc' = "steps"
                         /\ i' = 1
                         /\ UNCHANGED ret
               ELSE IF i + 1 < max_retries
                    THEN /\ out' = out \o waiting
                         /\ pc' = "poll"
                         /\ i' = i + 1
                         /\ UNCHANGED ret
                    ELSE /\ out' = out \o waiting
                                 \o <<SayN("error", "Container failed to start within seconds",
                                           max_retries * 2, 0, container_name)>>
                         /\ Return("False")
                         /\ UNCHANGED i
    /\ UNCHANGED <<command, project, force, host, regFile, envFile, fs,
                   compose_cmd, repo_url, exitStatus, hpc, hin, hout,
                   homeVars, histVars>>

\* one iteration of the loop over the setup steps, i counting from 1
SetupStep ==
    /\ pc = "steps"
    /\ \E rc \in ExitCodes :
        LET step == setup_steps[i]
            total == Len(setup_steps)
            ok == Truthy(RunCommand(Proc(rc, <<>>, <<>>), FALSE, FALSE))
            running == (IF i = 1
                        THEN <<SayN("info", "Running setup step(s)", 0, total, <<>>)>>
                        ELSE <<>>)
                       \o <<SayN("info", "Running", i, total, step)>>
        IN  /\ log' = Append(log, Act("step", step, ok))
            /\ IF StepAborts(ok)
               THEN /\ out' = out \o running
                            \o <<SayA("error", "Setup step failed", step)>>
                    /\ Return("False")
                    /\ UNCHANGED i
               ELSE IF i < total
               THEN /\ out' = out \o running
                            \o <<SayN("success", "Step completed", i, total, <<>>)>>
                    /\ pc' = "steps"
                    /\ i' = i + 1
                    /\ UNCHANGED ret
               ELSE /\ out' = out \o running
                            \o <<SayN("success", "Step completed", i, total, <<>>),
                                 SayA("header", "Setup Complete!", project_display_name),
                                 Say("success", "Project is ready")>>
                    /\ Return("True")
                    /\ UNCHANGED i
    /\ UNCHANGED <<command, project, force, host, regFile, envFile, fs,
                   compose_cmd, repo_url, exitStatus, hpc, hin, hout,
                   homeVars, histVars>>

----------------------------------------------------------------------------
(* The program *)

Next ==
    \/ Main
    \/ CmdStart
    \/ CmdStop
    \/ CmdRestart
    \/ CmdStatus
    \/ SetupBegin
    \/ SetupUrlPrompt
    \/ SetupConfirm
    \/ SetupStop
    \/ SetupRmtree
    \/ SetupCleanup
    \/ SetupClone
    \/ SetupStart
    \/ SetupPoll
    \/ SetupStep
    \/ Exit

Spec == Init /\ [][Next]_vars


----------------------------------------------------------------------------
(* cmd_setup_steps *)

\* the project name __main__ passes for setup-symfony
symfony == <<"s", "y", "m", "f", "o", "n", "y">>

\* registry lookup and the one check that the container is running
CmdSetupSteps ==
    /\ pc = "dispatch"
    /\ command = "setup-symfony"
    /\ LET projects_config == LoadProjectsConfig(regFile)
       IN  IF NoProjects(projects_config)
           THEN /\ out' = out \o LoadProjectsConfigPrints(regFile)
                /\ Return("False")
                /\ UNCHANGED <<i, log>>
           ELSE IF symfony \notin DOMAIN projects_config.projects
           THEN /\ out' = out \o <<SayA("error", "Unknown project", symfony),
                                   Say("info", "Available projects")>>
                /\ Return("False")
                /\ UNCHANGED <<i, log>>
           ELSE LET config == projects_config.projects[symfony]
                    steps == Field(config, "setup_steps", <<>>)
                    header == <<SayA("header", "Setup Steps", config.name)>>
                IN  \E proc \in CheckProcs(config.container) :
                      LET result == RunCommand(proc, TRUE, TRUE)
                          running == Truthy(result) /\ Contains(config.container, result.str)
                      IN  /\ log' = Append(log, Act("check", config.container, running))
                          /\ IF ~running
                             THEN /\ out' = out \o header
                                        \o <<SayA("error", "Container is not running", config.container),
                                             Say("info", "Start containers with: dev start")>>
                                  /\ Return("False")
                                  /\ UNCHANGED i
                             ELSE IF steps = <<>>
                             THEN /\ out' = out \o header
                                        \o <<SayA("warning", "No setup steps defined for", config.name)>>
                                  /\ Return("True")
                                  /\ UNCHANGED i
                             ELSE /\ out' = out \o header
                                        \o <<SayN("info", "Running setup step(s)", 0, Len(steps), <<>>)>>
                                  /\ pc' = "resteps"
                                  /\ i' = 1
                                  /\ UNCHANGED ret
    /\ UNCHANGED <<command, project, force, host, regFile, envFile, fs,
                   compose_cmd, repo_url, exitStatus, hpc, hin, hout,
                   homeVars, histVars>>

\* a loop that goes on to the next step after a step that failed
SetupStepsStep_KeepsGoing ==
    /\ pc = "resteps"
    /\ \E rc \in ExitCodes :
        LET config == LoadProjectsConfig(regFile).projects[symfony]
            steps == Field(config, "setup_steps", <<>>)
            step == steps[i]
            total == Len(steps)
            ok == Truthy(RunCommand(Proc(rc, <<>>, <<>>), FALSE, FALSE))
        IN  /\ log' = Append(log, Act("step", step, ok))
            /\ IF i < total
               THEN /\ out' = out \o <<SayN("info", "Running", i, total, step),
                                       SayN("success", "Step completed", i, total, <<>>)>>
                    /\ pc' = "resteps"
                    /\ i' = i + 1
                    /\ UNCHANGED ret
               ELSE /\ out' = out \o <<SayN("info", "Running", i, total, step),
                                       SayN("success", "Step completed", i, total, <<>>),
                                       SayA("header", "Setup Complete!", config.name)>>
                    /\ Return("True")
                    /\ UNCHANGED i
    /\ UNCHANGED <<command, project, force, host, regFile, envFile, fs,
                   compose_cmd, repo_url, exitStatus, hpc, hin, hout,
                   homeVars, histVars>>

\* one iteration of cmd_setup_steps's loop over the setup steps
SetupStepsStep ==
    /\ pc = "resteps"
    /\ \E rc \in ExitCodes :
        LET config == LoadProjectsConfig(regFile).projects[symfony]
            steps == Field(config, "setup_steps", <<>>)
            step == steps[i]
            total == Len(steps)
            ok == Truthy(RunCommand(Proc(rc, <<>>, <<>>), FALSE, FALSE))
        IN  /\ log' = Append(log, Act("step", step, ok))
            /\ IF ~ok
               THEN /\ out' = out \o <<SayN("info", "Running", i, total, step),
                                       SayA("error", "Setup step failed", step)>>
                    /\ Return("False")
                    /\ UNCHANGED i
               ELSE IF i < total
               THEN /\ out' = out \o <<SayN("info", "Running", i, total, step),
                                       SayN("success", "Step completed", i, total, <<>>)>>
                    /\ pc' = "resteps"
                    /\ i' = i + 1
                    /\ UNCHANGED ret
               ELSE /\ out' = out \o <<SayN("info", "Running", i, total, step),
                                       SayN("success", "Step completed", i, total, <<>>),
                                       SayA("header", "Setup Complete!", config.name)>>
                    /\ Return("True")
                    /\ UNCHANGED i
    /\ UNCHANGED <<command, project, force, host, regFile, envFile, fs,
                   compose_cmd, repo_url, exitStatus, hpc, hin, hout,
                   homeVars, histVars>>

----------------------------------------------------------------------------
(* One invocation after another *)

\* the program is started again from the shell: a new process, with the
\* files and directories it is given; memory is what is kept of the process
\* before it
Invoke(cmd, proj, frc, filesystem, memory) ==
    /\ pc = "exited"
    /\ command' = cmd
    /\ project' = proj
    /\ force' = frc
    /\ fs' = filesystem
    /\ pc' = "main"
    /\ compose_cmd' = "None"
    /\ repo_url' = <<>>
    /\ i' = 0
    /\ log' = <<>>
    /\ out' = <<>>
    /\ ret' = "None"
    /\ exitStatus' = -1
    /\ run' = run + 1
    /\ prev' = memory
    /\ UNCHANGED <<host, regFile, envFile, homeVars, hpc, hin, hout>>

\* what the process did, printed and returned
Done == <<[log |-> log, out |-> out, ret |-> ret]>>

\* shutil.rmtree raised PermissionError
PermissionDenied(printed) ==
    \E k \in 1..Len(printed) :
        printed[k].msg = "Permission error - cleaning up via Docker..."

\* the external world answers this invocation as it answered the one
\* before: the n-th action of a kind, on the same argument, has the same
\* outcome, and the n-th prompt of a kind among kinds gets the same answer
Follows(kinds) ==
    prev = <<>> \/
    \A k \in (Len(log) + 1)..Len(log') :
        LET e == log'[k]
            n == Len(SelectSeq(SubSeq(log', 1, k), LAMBDA x : x.kind = e.kind))
            before == SelectSeq(prev[1].log, LAMBDA x : x.kind = e.kind)
        IN  (e.kind \in kinds /\ n <= Len(before)) =>
                IF e.kind = "input_url"
                THEN e.arg = before[n].arg
                ELSE e.arg = before[n].arg =>
                         /\ e.ok = before[n].ok
                         /\ e.kind = "rmtree" =>
                                PermissionDenied(out') = PermissionDenied(prev[1].out)

----------------------------------------------------------------------------
(* cmd_aliases *)

\* str.replace(old, new): every occurrence, left to right, not overlapping
RECURSIVE Replace(_, _, _)
Replace(s, old, new) ==
    IF Len(s) < Len(old) THEN s
    ELSE IF SubSeq(s, 1, Len(old)) = old
    THEN new \o Replace(SubSeq(s, Len(old) + 1, Len(s)), old, new)
    ELSE <<Head(s)>> \o Replace(Tail(s), old, new)

\* cmd_aliases as a function of the files and of the answer at its prompt:
\* the files it leaves, what it does and prints, and what it returns
cmd_aliases(from_init, answer) ==
    LET header == <<Say("header", "Installing Bash Aliases")>>
        dev_py_path == <<"/", "s", "r", "v", "/", "d", "e", "v", "/", "d", "e", "v", ".", "p", "y">>
        source_lines ==
            <<"\n", "#", " ", "S", "o", "u", "r", "c", "e", " ", "b", "a", "s", "h", " ", "a", "l", "i", "a", "s", "e", "s", " ", "i", "f", " ", "f", "i", "l", "e", " ", "e", "x", "i", "s", "t", "s", "\n", "i", "f", " ", "[", " ", "-", "f", " ", "~", "/", ".", "b", "a", "s", "h", "_", "a", "l", "i", "a", "s", "e", "s", " ", "]", ";", " ", "t", "h", "e", "n", "\n", " ", " ", " ", " ", ".", " ", "~", "/", ".", "b", "a", "s", "h", "_", "a", "l", "i", "a", "s", "e", "s", "\n", "f", "i", "\n">>
        aliases_content == Replace(aliasTemplate.text,
                                   <<"/", "p", "a", "t", "h", "/", "t", "o", "/", "d", "e", "v", "-", "e", "n", "v", "i", "r", "o", "n", "m", "e", "n", "t", "/", "d", "e", "v", ".", "p", "y">>, dev_py_path)
        asked == IF aliasFile.exists
                 THEN <<Act("input_replace", answer, TRUE)>>
                 ELSE <<>>
        warned == IF aliasFile.exists
                  THEN <<Say("warning", "~/.bash_aliases already exists and will be completely replaced")>>
                  ELSE IF ~from_init
                  THEN <<Say("info", "Creating new ~/.bash_aliases file")>>
                  ELSE <<>>
        written == <<Act("write_aliases", aliases_content, TRUE)>>
        sourced == Contains(<<".", "b", "a", "s", "h", "_", "a", "l", "i", "a", "s", "e", "s">>, bashrc.text)
        done(l, o, r, a, b) ==
            [log |-> l, out |-> o, ret |-> r, aliasFile |-> a, bashrc |-> b]
    IN  IF ~aliasTemplate.exists
        THEN done(<<>>,
                  header \o <<Say("error", "aliases file not found in project root!")>>,
                  "False", aliasFile, bashrc)
        ELSE IF aliasFile.exists /\ Lower(Strip(answer)) # <<"y">>
        THEN done(asked,
                  header \o warned \o <<Say("info", "Alias installation cancelled")>>,
                  "False", aliasFile, bashrc)
        ELSE IF ~bashrc.exists
        THEN done(asked \o written,
                  header \o warned
                      \o <<Say("success", "Aliases written to ~/.bash_aliases"),
                           Say("warning", "~/.bashrc not found"),
                           Say("success", "Aliases installed successfully!")>>,
                  "True", File(aliases_content), bashrc)
        ELSE IF ~sourced
        THEN done(asked \o written \o <<Act("append_bashrc", source_lines, TRUE)>>,
                  header \o warned
                      \o <<Say("success", "Aliases written to ~/.bash_aliases"),
                           Say("success", "Added source command to ~/.bashrc"),
                           Say("success", "Aliases installed successfully!")>>,
                  "True", File(aliases_content), File(bashrc.text \o source_lines))
        ELSE done(asked \o written,
                  header \o warned
                      \o <<Say("success", "Aliases written to ~/.bash_aliases"),
                           Say("info", "~/.bashrc already sources ~/.bash_aliases"),
                           Say("success", "Aliases installed successfully!")>>,
                  "True", File(aliases_content), bashrc)

\* dev aliases
CmdAliases ==
    /\ pc = "dispatch"
    /\ command = "aliases"
    /\ \E answer \in (IF aliasFile.exists THEN ConfirmAnswers ELSE {<<>>}) :
        \E r \in {cmd_aliases(FALSE, answer)} :
            /\ aliasFile' = r.aliasFile
            /\ bashrc' = r.bashrc
            /\ log' = log \o r.log
            /\ out' = out \o r.out
            /\ Return(r.ret)
    /\ UNCHANGED <<command, project, force, host, regFile, envFile, fs,
                   compose_cmd, repo_url, i, exitStatus, hpc, hin, hout,
                   aliasTemplate, envExample, symfonyDir, vueDir, histVars>>

----------------------------------------------------------------------------
(* cmd_init *)

\* f'{n}' for a natural number n
RECURSIVE Decimal(_)
Decimal(n) ==
    LET digit == <<"0", "1", "2", "3", "4", "5", "6", "7", "8", "9">>[(n % 10) + 1]
    IN  IF n < 10 THEN <<digit>> ELSE Decimal(n \div 10) \o <<digit>>

\* steps 1 to 3: the reinitialize prompt, .env made from .env.example, the
\* user and group IDs (logged as "ids", with whether they were appended)
CmdInitEnv ==
    /\ pc = "dispatch"
    /\ command = "init"
    /\ \E answer \in (IF symfonyDir = "code" THEN ConfirmAnswers ELSE {<<>>}),
          user_id \in {0, 1000}, group_id \in {0, 1000} :
        LET header == <<Say("header", "Initializing Development Environment")>>
            asked == IF symfonyDir = "code"
                     THEN <<Act("input_reinit", answer, TRUE)>>
                     ELSE <<>>
            env_content == IF envFile.exists THEN envFile.text ELSE envExample.text
            ids == <<"\n", "#", " ", "A", "u", "t", "o", "-", "d", "e", "t", "e", "c", "t", "e", "d", " ", "u", "s", "e", "r", " ", "I", "D", "s", "\n">>
                       \o <<"U", "S", "E", "R", "_", "I", "D", "=">> \o Decimal(user_id) \o <<"\n">>
                       \o <<"G", "R", "O", "U", "P", "_", "I", "D", "=">> \o Decimal(group_id) \o <<"\n">>
        IN  IF symfonyDir = "code" /\ Lower(Strip(answer)) # <<"y">>
            THEN /\ log' = log \o asked
                 /\ out' = out \o header \o <<Say("warning", "Project directory already exists!"),
                                              Say("info", "Initialization cancelled")>>
                 /\ Return("False")
                 /\ UNCHANGED envFile
            ELSE IF ~envFile.exists /\ ~envExample.exists
            THEN /\ log' = log \o asked
                 /\ out' = out \o header \o <<Say("error", ".env.example file not found!")>>
                 /\ Return("False")
                 /\ UNCHANGED envFile
            ELSE IF ~Contains(<<"U", "S", "E", "R", "_", "I", "D", "=">>, env_content)
            THEN /\ log' = log \o asked
                        \o (IF envFile.exists THEN <<>> ELSE <<Act("copy_env", <<>>, TRUE)>>)
                        \o <<Act("ids", ids, TRUE)>>
                 /\ out' = out \o header
                        \o <<Say("success", "Added USER_ID and GROUP_ID to .env")>>
                 /\ envFile' = File(env_content \o ids)
                 /\ pc' = "init_repos"
                 /\ UNCHANGED ret
            ELSE /\ log' = log \o asked
                        \o (IF envFile.exists THEN <<>> ELSE <<Act("copy_env", <<>>, TRUE)>>)
                        \o <<Act("ids", <<>>, FALSE)>>
                 /\ out' = out \o header
                        \o <<Say("info", "USER_ID and GROUP_ID already set in .env")>>
                 /\ envFile' = File(env_content)
                 /\ pc' = "init_repos"
                 /\ UNCHANGED ret
    /\ UNCHANGED <<command, project, force, host, regFile, fs,
                   compose_cmd, repo_url, i, exitStatus, hpc, hin, hout,
                   aliasFile, bashrc, aliasTemplate, envExample, symfonyDir, vueDir,
                   histVars>>

\* the value of the first GITHUB_REPO= line of .env, empty when there is none
RECURSIVE GithubRepo(_)
GithubRepo(lines) ==
    IF lines = <<>> THEN <<>>
    ELSE LET line == Strip(Head(lines))
             key == <<"G", "I", "T", "H", "U", "B", "_", "R", "E", "P", "O", "=">>
         IN  IF Len(line) >= Len(key) /\ SubSeq(line, 1, Len(key)) = key
             THEN SubSeq(line, Len(key) + 1, Len(line))
             ELSE GithubRepo(Tail(lines))

\* steps 4 to 5b: the Symfony and the Vue repository (a clone that fails is
\* taken to leave no directory behind)
CmdInitRepos ==
    /\ pc = "init_repos"
    /\ \E answer \in {<<>>, <<" ", "u", " ">>}, vue_answer \in {<<>>, <<" ", "u", " ">>},
          rc \in ExitCodes, vue_rc \in ExitCodes :
        LET found == GithubRepo(SplitLines(envFile.text))
            prompted == found = <<>> \/ Contains(<<"y", "o", "u", "r", "u", "s", "e", "r", "n", "a", "m", "e">>, found)
            github_repo == IF prompted THEN Strip(answer) ELSE found
            cloning == github_repo # <<>> /\ symfonyDir = "absent"
            ok == Truthy(RunCommand(Proc(rc, <<>>, <<>>), TRUE, FALSE))
            vue_prompted == vueDir # "code"
            vue_repo == Strip(vue_answer)
            vue_ok == Truthy(RunCommand(Proc(vue_rc, <<>>, <<>>), TRUE, FALSE))
        IN  /\ (~prompted => answer = <<>>)
            /\ (~cloning => rc = 0)
            /\ (~vue_prompted => vue_answer = <<>>)
            /\ (~(vue_prompted /\ vue_repo # <<>>) => vue_rc = 0)
            /\ log' = log
                   \o (IF prompted THEN <<Act("input_github", answer, TRUE)>> ELSE <<>>)
                   \o (IF cloning THEN <<Act("clone_symfony", github_repo, ok)>> ELSE <<>>)
                   \o (IF vue_prompted THEN <<Act("input_vue", vue_answer, TRUE)>> ELSE <<>>)
                   \o (IF vue_prompted /\ vue_repo # <<>>
                       THEN <<Act("clone_vue", vue_repo, vue_ok)>> ELSE <<>>)
            /\ symfonyDir' = IF cloning
                             THEN (IF ok THEN "code" ELSE "absent")
                             ELSE IF symfonyDir = "absent" THEN "empty" ELSE symfonyDir
            /\ vueDir' = IF ~vue_prompted THEN vueDir
                         ELSE IF vue_repo = <<>> THEN "empty"
                         ELSE IF vue_ok THEN "code" ELSE vueDir
            /\ out' = out
                   \o (IF cloning
                       THEN (IF ok THEN <<Say("success", "Symfony repository cloned successfully")>>
                                   ELSE <<Say("error", "Failed to clone repository")>>)
                       ELSE IF symfonyDir # "absent"
                       THEN <<Say("info", "Symfony project directory already exists, skipping clone")>>
                       ELSE <<Say("warning", "No Symfony repository URL provided")>>)
                   \o (IF ~vue_prompted
                       THEN <<Say("info", "Vue project directory already exists, skipping clone")>>
                       ELSE IF vue_repo = <<>>
                       THEN <<Say("info", "No Vue repository URL provided")>>
                       ELSE IF vue_ok
                       THEN <<Say("success", "Vue repository cloned successfully")>>
                       ELSE <<Say("error", "Failed to clone Vue repository")>>)
    /\ pc' = "init_build"
    /\ UNCHANGED <<command, project, force, host, regFile, envFile, fs,
                   compose_cmd, repo_url, i, ret, exitStatus, hpc, hin, hout,
                   aliasFile, bashrc, aliasTemplate, envExample, histVars>>

\* steps 6 to 9: build, up -d and composer install
CmdInitContainers ==
    /\ pc = "init_build"
    /\ \E build_rc \in ExitCodes, up_rc \in ExitCodes, composer_json \in BOOLEAN,
          composer_rc \in ExitCodes :
        LET built == Truthy(RunCommand(Proc(build_rc, <<>>, <<>>), TRUE, FALSE))
            up == Truthy(RunCommand(Proc(up_rc, <<>>, <<>>), TRUE, FALSE))
            installed == Truthy(RunCommand(Proc(composer_rc, <<>>, <<>>), FALSE, FALSE))
        IN  /\ (~built => up_rc = 0)
            /\ (composer_json => symfonyDir = "code" /\ built /\ up)
            /\ (~composer_json => composer_rc = 0)
            /\ IF ~built
               THEN /\ log' = log \o <<Act("build", <<>>, FALSE)>>
                    /\ out' = out \o <<Say("error", "Failed to build containers")>>
                    /\ Return("False")
               ELSE IF ~up
               THEN /\ log' = log \o <<Act("build", <<>>, TRUE), Act("up", <<>>, FALSE)>>
                    /\ out' = out \o <<Say("success", "Containers built successfully"),
                                       Say("error", "Failed to start containers")>>
                    /\ Return("False")
               ELSE /\ log' = log \o <<Act("build", <<>>, TRUE), Act("up", <<>>, TRUE)>>
                           \o (IF composer_json
                               THEN <<Act("composer", <<>>, installed)>> ELSE <<>>)
                    /\ out' = out \o <<Say("success", "Containers built successfully"),
                                       Say("success", "Containers started successfully")>>
                           \o (IF ~composer_json
                               THEN <<Say("info", "No composer.json found, skipping composer install")>>
                               ELSE IF installed
                               THEN <<Say("success", "Composer dependencies installed")>>
                               ELSE <<Say("warning", "Composer install failed or was skipped")>>)
                    /\ pc' = "init_aliases"
                    /\ UNCHANGED ret
    /\ UNCHANGED <<command, project, force, host, regFile, envFile, fs,
                   compose_cmd, repo_url, i, exitStatus, hpc, hin, hout,
                   homeVars, histVars>>

\* steps 10 and 11: cmd_aliases(project_root, from_init=True), whose result
\* decides only what is printed
CmdInitAliases ==
    /\ pc = "init_aliases"
    /\ \E answer \in (IF aliasFile.exists THEN ConfirmAnswers ELSE {<<>>}) :
        \E r \in {cmd_aliases(TRUE, answer)} :
            /\ aliasFile' = r.aliasFile
            /\ bashrc' = r.bashrc
            /\ log' = log \o r.log
            /\ out' = out \o r.out
                   \o <<IF r.ret = "True"
                        THEN Say("success", "Bash aliases installed")
                        ELSE Say("warning", "Failed to install bash aliases"),
                        Say("header", "Initialization Complete!")>>
    /\ Return("True")
    /\ UNCHANGED <<command, project, force, host, regFile, envFile, fs,
                   compose_cmd, repo_url, i, exitStatus, hpc, hin, hout,
                   aliasTemplate, envExample, symfonyDir, vueDir, histVars>>

----------------------------------------------------------------------------
(* The other commands *)

\* a confirmation that takes any answer beginning with y
CmdDown_AcceptsYes ==
    /\ pc = "dispatch"
    /\ command = "down"
    /\ \E answer \in ConfirmAnswers, rc \in ExitCodes :
        LET ok == Truthy(RunCommand(Proc(rc, <<>>, <<>>), TRUE, FALSE))
            header == <<Say("header", "Stopping and Removing Containers")>>
        IN  IF ~StartsWith(Lower(Strip(answer)), "y")
            THEN /\ rc = 0
                 /\ log' = Append(log, Act("input_confirm", answer, TRUE))
                 /\ out' = out \o header \o <<Say("info", "Operation cancelled")>>
                 /\ Return("False")
            ELSE /\ log' = log \o <<Act("input_confirm", answer, TRUE),
                                    Act("compose_down", <<>>, ok)>>
                 /\ out' = out \o header
                        \o <<IF ok THEN Say("success", "Containers stopped and removed successfully!")
                                   ELSE Say("error", "Failed to remove containers")>>
                 /\ Return(IF ok THEN "True" ELSE "False")
    /\ UNCHANGED <<command, project, force, host, regFile, envFile, fs,
                   compose_cmd, repo_url, i, exitStatus, hpc, hin, hout,
                   homeVars, histVars>>

\* cmd_down: a confirmation, then the orchestration command down
CmdDown ==
    /\ pc = "dispatch"
    /\ command = "down"
    /\ \E answer \in ConfirmAnswers, rc \in ExitCodes :
        LET ok == Truthy(RunCommand(Proc(rc, <<>>, <<>>), TRUE, FALSE))
            header == <<Say("header", "Stopping and Removing Containers")>>
        IN  IF Lower(Strip(answer)) # <<"y">>
            THEN /\ rc = 0
                 /\ log' = Append(log, Act("input_confirm", answer, TRUE))
                 /\ out' = out \o header \o <<Say("info", "Operation cancelled")>>
                 /\ Return("False")
            ELSE /\ log' = log \o <<Act("input_confirm", answer, TRUE),
                                    Act("compose_down", <<>>, ok)>>
                 /\ out' = out \o header
                        \o <<IF ok THEN Say("success", "Containers stopped and removed successfully!")
                                   ELSE Say("error", "Failed to remove containers")>>
                 /\ Return(IF ok THEN "True" ELSE "False")
    /\ UNCHANGED <<command, project, force, host, regFile, envFile, fs,
                   compose_cmd, repo_url, i, exitStatus, hpc, hin, hout,
                   homeVars, histVars>>

\* cmd_rebuild: a confirmation, then down (result not looked at), build
\* --no-cache and up -d
CmdRebuild ==
    /\ pc = "dispatch"
    /\ command = "rebuild"
    /\ \E answer \in ConfirmAnswers, down_rc \in ExitCodes, build_rc \in ExitCodes,
          up_rc \in ExitCodes :
        LET down == Truthy(RunCommand(Proc(down_rc, <<>>, <<>>), TRUE, FALSE))
            built == Truthy(RunCommand(Proc(build_rc, <<>>, <<>>), TRUE, FALSE))
            up == Truthy(RunCommand(Proc(up_rc, <<>>, <<>>), TRUE, FALSE))
            header == <<Say("header", "Rebuilding Containers")>>
        IN  IF Lower(Strip(answer)) # <<"y">>
            THEN /\ down_rc = 0 /\ build_rc = 0 /\ up_rc = 0
                 /\ log' = Append(log, Act("input_confirm", answer, TRUE))
                 /\ out' = out \o header \o <<Say("info", "Operation cancelled")>>
                 /\ Return("False")
            ELSE IF ~built
            THEN /\ up_rc = 0
                 /\ log' = log \o <<Act("input_confirm", answer, TRUE),
                                    Act("compose_down", <<>>, down),
                                    Act("compose_build", <<>>, FALSE)>>
                 /\ out' = out \o header \o <<Say("error", "Failed to build containers")>>
                 /\ Return("False")
            ELSE /\ log' = log \o <<Act("input_confirm", answer, TRUE),
                                    Act("compose_down", <<>>, down),
                                    Act("compose_build", <<>>, TRUE),
                                    Act("compose_up", <<>>, up)>>
                 /\ out' = out \o header
                        \o <<IF up THEN Say("success", "Containers rebuilt and started successfully!")
                                   ELSE Say("error", "Failed to start containers")>>
                 /\ Return(IF up THEN "True" ELSE "False")
    /\ UNCHANGED <<command, project, force, host, regFile, envFile, fs,
                   compose_cmd, repo_url, i, exitStatus, hpc, hin, hout,
                   homeVars, histVars>>

\* cmd_logs: the orchestration command logs, ended or interrupted
CmdLogs ==
    /\ pc = "dispatch"
    /\ command = "logs"
    /\ \E rc \in ExitCodes, interrupted \in BOOLEAN :
        /\ (interrupted => rc = 1)
        /\ log' = Append(log, Act("compose_logs", <<>>, rc = 0))
        /\ out' = out \o <<Say("header", "Container Logs")>>
                      \o (IF interrupted THEN <<Say("info", "Log viewing stopped")>> ELSE <<>>)
    /\ Return("True")
    /\ UNCHANGED <<command, project, force, host, regFile, envFile, fs,
                   compose_cmd, repo_url, i, exitStatus, hpc, hin, hout,
                   homeVars, histVars>>

\* cmd_composer, cmd_symfony and cmd_npm: the arguments handed to a tool
\* inside a container, refused when there are none
CmdExec ==
    /\ pc = "dispatch"
    /\ command \in {"composer", "symfony", "npm"}
    /\ \E args_str \in {<<>>, <<"i", "n", "s", "t", "a", "l", "l">>}, rc \in ExitCodes :
        LET ok == Truthy(RunCommand(Proc(rc, <<>>, <<>>), FALSE, FALSE))
        IN  IF args_str = <<>>
            THEN /\ rc = 0
                 /\ out' = out \o <<Say("header", "Running"), Say("error", "No command specified")>>
                 /\ Return("False")
                 /\ UNCHANGED log
            ELSE /\ log' = Append(log, Act("exec", args_str, ok))
                 /\ out' = out \o <<Say("header", "Running"), SayA("info", "Running", args_str)>>
                 /\ Return(IF ok THEN "True" ELSE "False")
    /\ UNCHANGED <<command, project, force, host, regFile, envFile, fs,
                   compose_cmd, repo_url, i, exitStatus, hpc, hin, hout,
                   homeVars, histVars>>

\* cmd_shell and cmd_mysql: a check that the container is running, then an
\* interactive program in it (cmd_mysql reads its credentials from .env)
CmdShell ==
    /\ pc = "dispatch"
    /\ command \in {"shell", "mysql"}
    /\ \E service \in (IF command = "shell" THEN {php, <<"v", "u", "e">>} ELSE {<<"m", "y", "s", "q", "l">>}),
          rc \in ExitCodes :
        LET container == <<"s", "y", "m", "f", "o", "n", "y", "-">> \o service
        IN  \E proc \in CheckProcs(container) :
              LET result == RunCommand(proc, TRUE, TRUE)
                  running == Truthy(result) /\ Contains(container, result.str)
                  ok == Truthy(RunCommand(Proc(rc, <<>>, <<>>), FALSE, FALSE))
              IN  IF ~running
                  THEN /\ rc = 0
                       /\ log' = Append(log, Act("check", container, FALSE))
                       /\ out' = out \o <<SayA("header", "Opening", service),
                                          SayA("error", "Container is not running", container)>>
                       /\ Return("False")
                  ELSE /\ log' = log \o <<Act("check", container, TRUE),
                                          Act("exec", container, ok)>>
                       /\ out' = out \o <<SayA("header", "Opening", service)>>
                       /\ Return(IF ok THEN "True" ELSE "False")
    /\ UNCHANGED <<command, project, force, host, regFile, envFile, fs,
                   compose_cmd, repo_url, i, exitStatus, hpc, hin, hout,
                   homeVars, histVars>>

\* cmd_nuke: the word NUKE asked for unless forced, then the five cleanup
\* phases, whose failures are reported and passed over
CmdNuke ==
    /\ pc = "dispatch"
    /\ command = "nuke"
    /\ \E answer \in {<<"N", "U", "K", "E">>, <<" ", "N", "U", "K", "E", " ">>, <<"n", "u", "k", "e">>, <<"y">>, <<>>},
          down_rc \in ExitCodes, volumes_rc \in ExitCodes,
          config \in {Proc(1, <<>>, <<>>), Proc(0, <<>>, <<>>), Proc(0, <<"a", "p", "p", "\n", "\n", "d", "b", "\n">>, <<>>)},
          rmi_rc \in ExitCodes, cache_rc \in ExitCodes, system_rc \in ExitCodes :
        LET header == <<Say("header", "[!] NUCLEAR OPTION - Complete Docker Reset [!]")>>
            asked == IF force THEN <<>> ELSE <<Act("input_nuke", answer, TRUE)>>
            run_of(rc) == Truthy(RunCommand(Proc(rc, <<>>, <<>>), FALSE, FALSE))
            images == RunCommand(config, TRUE, TRUE)
            names == SelectSeq([k \in 1..Len(SplitLines(images.str)) |->
                                    Strip(SplitLines(images.str)[k])],
                               LAMBDA n : n # <<>>)
            removals == IF Truthy(images)
                        THEN [k \in 1..Len(names) |-> Act("rmi", names[k], run_of(rmi_rc))]
                        ELSE <<>>
        IN  IF ~force /\ Strip(answer) # <<"N", "U", "K", "E">>
            THEN /\ down_rc = 0 /\ volumes_rc = 0 /\ config.rc = 1
                 /\ rmi_rc = 0 /\ cache_rc = 0 /\ system_rc = 0
                 /\ log' = log \o asked
                 /\ out' = out \o header \o <<Say("info", "Nuke cancelled")>>
                 /\ Return("False")
            ELSE /\ (force => answer = <<>>)
                 /\ (removals = <<>> => rmi_rc = 0)
                 /\ log' = log \o asked
                        \o <<Act("compose_down", <<>>, run_of(down_rc)),
                             Act("compose_down_volumes", <<>>, run_of(volumes_rc)),
                             Act("compose_images", <<>>, Truthy(images))>>
                        \o removals
                        \o <<Act("builder_prune", <<>>, run_of(cache_rc)),
                             Act("system_prune", <<>>, run_of(system_rc))>>
                 /\ out' = out \o header
                        \o <<IF run_of(down_rc)
                             THEN Say("success", "Containers stopped and removed")
                             ELSE Say("warning", "Failed to stop containers (they may not exist)"),
                             IF run_of(volumes_rc)
                             THEN Say("success", "Volumes removed")
                             ELSE Say("warning", "Failed to remove volumes (they may not exist)"),
                             IF Truthy(images)
                             THEN Say("success", "Images removed")
                             ELSE Say("info", "No images to remove"),
                             IF run_of(cache_rc)
                             THEN Say("success", "Build cache pruned")
                             ELSE Say("warning", "Failed to prune build cache"),
                             Say("success", "Orphaned resources cleaned"),
                             Say("header", "*** Nuclear Cleanup Complete! ***")>>
                 /\ Return("True")
    /\ UNCHANGED <<command, project, force, host, regFile, envFile, fs,
                   compose_cmd, repo_url, i, exitStatus, hpc, hin, hout,
                   homeVars, histVars>>

\* cmd_up: refused without a .env file, else up -d, with --build when asked
\* for, and the container status
CmdUp ==
    /\ pc = "dispatch"
    /\ command = "up"
    /\ \E build \in BOOLEAN, rc \in ExitCodes, ps_rc \in ExitCodes :
        LET ok == Truthy(RunCommand(Proc(rc, <<>>, <<>>), TRUE, FALSE))
            header == <<Say("header", IF build THEN "Starting Containers with Rebuild"
                                               ELSE "Starting Containers")>>
        IN  IF ~envFile.exists
            THEN /\ rc = 0 /\ ps_rc = 0
                 /\ out' = out \o header \o <<Say("error", ".env file not found!")>>
                 /\ Return("False")
                 /\ UNCHANGED log
            ELSE IF ~ok
            THEN /\ ps_rc = 0
                 /\ log' = Append(log, Act(IF build THEN "compose_up_build" ELSE "compose_up",
                                           <<>>, FALSE))
                 /\ out' = out \o header \o <<Say("error", "Failed to start containers")>>
                 /\ Return("False")
            ELSE /\ log' = log \o <<Act(IF build THEN "compose_up_build" ELSE "compose_up",
                                        <<>>, TRUE),
                                    Act("compose_ps", <<>>, ps_rc = 0)>>
                 /\ out' = out \o header \o <<Say("success", "Containers started successfully")>>
                 /\ Return("True")
    /\ UNCHANGED <<command, project, force, host, regFile, envFile, fs,
                   compose_cmd, repo_url, i, exitStatus, hpc, hin, hout,
                   homeVars, histVars>>
----------------------------------------------------------------------------
(* The functions on their own: each is called once on arguments drawn    *)
(* from a bounded set, while the program stays idle                      *)

ProgIdle ==
    /\ FreshHome
    /\ pc = "idle"
    /\ command = "none"
    /\ project = backend
    /\ force = FALSE
    /\ host = HostGood
    /\ regFile = [state |-> "missing", projects |-> EmptyDict]
    /\ envFile = NoFile
    /\ fs = [mount |-> FALSE, repo |-> FALSE]
    /\ compose_cmd = "None"
    /\ repo_url = <<>>
    /\ i = 0
    /\ log = <<>>
    /\ out = <<>>
    /\ ret = "None"
    /\ exitStatus = -1

\* every text of at most n characters of the set chars
Texts(chars, n) == UNION {[1..k -> chars] : k \in 0..n}

(* run_command *)

RunInputs ==
    [proc : {Proc(rc, stdout, stderr) :
                rc \in {0, 1, 2},
                stdout \in Texts({" ", "\n", "a"}, MaxOut),
                stderr \in {<<>>, <<"e">>}},
     check : BOOLEAN,
     capture_output : BOOLEAN]

InitRun ==
    /\ ProgIdle
    /\ hpc = "call"
    /\ hin \in RunInputs
    /\ hout = [value |-> BoolV(FALSE), printed |-> <<>>]

CallRunCommand ==
    /\ hpc = "call"
    /\ hpc' = "done"
    /\ hout' = [value |-> RunCommand(hin.proc, hin.check, hin.capture_output),
                printed |-> RunCommandPrints(hin.proc, hin.check, hin.capture_output)]
    /\ UNCHANGED hin
    /\ UNCHANGED progVars

NextRun == CallRunCommand

SpecRun == InitRun /\ [][NextRun]_vars

(* load_env_file *)

EnvKeys == { <<"A">>, <<"B">> }
EnvValues == { <<>>, <<"v">>, <<"a", "=", "b">>, <<"\"">>, <<"'", "v", "\"">> }

\* a line of an environment file, as its author means it: a pair of a key
\* and a value, the value bare or wrapped in quotes, with or without blanks
\* around the key and the value; a comment; a blank line; a line without "="
EnvLineKinds ==
    [key : EnvKeys, value : EnvValues, kind : {"pair"},
     quote : {"none", "dq", "sq"}, pad : BOOLEAN]
    \cup [key : {<<"A">>}, value : {<<"v">>}, kind : {"comment", "blank", "bare"},
          quote : {"none"}, pad : BOOLEAN]

Quoted(d) ==
    IF d.quote = "dq" THEN <<"\"">> \o d.value \o <<"\"">>
    ELSE IF d.quote = "sq" THEN <<"'">> \o d.value \o <<"'">>
    ELSE d.value

\* the text of a line
Render(d) ==
    IF d.kind = "pair"
    THEN IF d.pad
         THEN <<" ">> \o d.key \o <<" ", "=", "\t">> \o Quoted(d) \o <<" ">>
         ELSE d.key \o <<"=">> \o Quoted(d)
    ELSE IF d.kind = "comment"
    THEN (IF d.pad THEN <<" ">> ELSE <<>>) \o <<"#">> \o d.key \o <<"=">> \o d.value
    ELSE IF d.kind = "blank"
    THEN (IF d.pad THEN <<" ", "\t">> ELSE <<>>)
    ELSE (IF d.pad THEN <<" ">> ELSE <<>>) \o d.key

\* the text of a file of these lines; the last line may lack its line end
RECURSIVE FileText(_, _)
FileText(lines, newline) ==
    IF lines = <<>> THEN <<>>
    ELSE Render(Head(lines))
         \o (IF Len(lines) > 1 \/ newline THEN <<"\n">> ELSE <<>>)
         \o FileText(Tail(lines), newline)

EnvInputs ==
    {[exists |-> FALSE, lines |-> <<>>, newline |-> FALSE]}
    \cup [exists : {TRUE},
          lines : UNION {[1..n -> EnvLineKinds] : n \in 0..MaxLines},
          newline : BOOLEAN]

InitEnv ==
    /\ ProgIdle
    /\ hpc = "call"
    /\ hin \in EnvInputs
    /\ hout = EmptyDict

CallLoadEnvFile ==
    /\ hpc = "call"
    /\ hpc' = "done"
    /\ hout' = LoadEnvFile(IF hin.exists
                           THEN File(FileText(hin.lines, hin.newline))
                           ELSE NoFile)
    /\ UNCHANGED hin
    /\ UNCHANGED progVars

NextEnv == CallLoadEnvFile

SpecEnv == InitEnv /\ [][NextEnv]_vars

(* is_placeholder_value *)

UpperChar(c) ==
    IF \E k \in 1..26 : LowerLetters[k] = c
    THEN UpperLetters[CHOOSE k \in 1..26 : LowerLetters[k] = c]
    ELSE c

\* s in capitals, and s with every other letter a capital
Upper(s) == [k \in 1..Len(s) |-> UpperChar(s[k])]
Mixed(s) == [k \in 1..Len(s) |-> IF k % 2 = 1 THEN UpperChar(s[k]) ELSE s[k]]

\* values to classify: the indicators in three spellings, texts that are
\* close to an indicator, a repository URL, the empty text and a blank
Candidates ==
    {placeholder_indicators[n] : n \in 1..Len(placeholder_indicators)}
    \cup {Upper(placeholder_indicators[n]) : n \in 1..Len(placeholder_indicators)}
    \cup {Mixed(placeholder_indicators[n]) : n \in 1..Len(placeholder_indicators)}
    \cup { <<"y", "o", "u", "r", "u", "s", "e", "r", "n", "a", "m">>, <<"y", "o", "u", "r", "_", "u", "s", "e", "r", "n", "a", "m", "e">>, <<"p", "l", "a", "c", "e", "-", "h", "o", "l", "d", "e", "r">>,
           <<"e", "x", "a", "m", "p", "l", "e", ".", "c", "o">>, <<"c", "h", "a", "n", "g", "e", " ", "m", "e">>, <<"h", "a", "n", "g", "e", "m", "e">>,
           RealUrl, TemplateUrl, <<>>, <<" ">> }

PlaceholderInputs ==
    {pre \o mid \o post : pre \in Texts({"x", "/"}, MaxPad), mid \in Candidates,
                          post \in Texts({"x", "/"}, MaxPad)}

InitPlaceholder ==
    /\ ProgIdle
    /\ hpc = "call"
    /\ hin \in PlaceholderInputs
    /\ hout = FALSE

CallIsPlaceholderValue ==
    /\ hpc = "call"
    /\ hpc' = "done"
    /\ hout' = IsPlaceholderValue(hin)
    /\ UNCHANGED hin
    /\ UNCHANGED progVars

NextPlaceholder == CallIsPlaceholderValue

SpecPlaceholder == InitPlaceholder /\ [][NextPlaceholder]_vars


----------------------------------------------------------------------------
(* cmd_setup on its own, every external command and every prompt returning *)

\* the largest registry entry of the model, filed under the given project
LargestRegistry(name) ==
    [state |-> "ok",
     projects |-> [p \in {name} |->
                      FullEntry(SubSeq(RelatedPool, 1, MaxRelated),
                                SubSeq(StepPool, 1, MaxSteps))]]

\* the registry entry that leaves every optional field to its default
SmallestRegistry(name) ==
    [state |-> "ok", projects |-> [p \in {name} |-> MinimalEntry]]

InitSetup ==
    /\ FreshHome
    /\ HarnessOff
    /\ pc = "main"
    /\ compose_cmd = "None"
    /\ repo_url = <<>>
    /\ i = 0
    /\ log = <<>>
    /\ out = <<>>
    /\ ret = "None"
    /\ exitStatus = -1
    /\ command = "setup"
    /\ host = HostGood
    /\ project \in {backend, ghost}
    /\ force \in BOOLEAN
    /\ regFile \in {LargestRegistry(backend), SmallestRegistry(backend)}
    /\ envFile \in {NoFile, File(<<"R", "E", "P", "O", "=", "u", "\n">>)}
    /\ fs \in {[mount |-> FALSE, repo |-> FALSE], [mount |-> TRUE, repo |-> TRUE]}

NextSetup ==
    \/ Main
    \/ SetupBegin
    \/ SetupUrlPrompt
    \/ SetupConfirm
    \/ SetupStop
    \/ SetupRmtree
    \/ SetupCleanup
    \/ SetupClone
    \/ SetupStart
    \/ SetupPoll
    \/ SetupStep
    \/ Exit

\* each step of the program is taken once it can be: no external command
\* and no prompt blocks for ever
SpecSetup == InitSetup /\ [][NextSetup]_vars /\ WF_vars(NextSetup)

----------------------------------------------------------------------------
(* cmd_setup finding its repository URL *)

InitUrl ==
    /\ FreshHome
    /\ HarnessOff
    /\ pc = "main"
    /\ compose_cmd = "None"
    /\ repo_url = <<>>
    /\ i = 0
    /\ log = <<>>
    /\ out = <<>>
    /\ ret = "None"
    /\ exitStatus = -1
    /\ command = "setup"
    /\ host = HostGood
    /\ project \in {backend, ghost}
    /\ force \in BOOLEAN
    /\ regFile = [state |-> "ok",
                  projects |-> [p \in {backend} |-> FullEntry(<<>>, <<migrate>>)]]
    /\ envFile \in EnvFiles \cup {File(<<"R", "E", "P", "O", "=", "\n">>), File(<<"O", "T", "H", "E", "R", "=", "g", "i", "t", "@", "h", "o", "s", "t", ":", "o", "r", "g", "/", "r", "e", "p", "o", ".", "g", "i", "t", "\n">>)}
    /\ fs \in FileSystems

SpecUrl == InitUrl /\ [][NextSetup]_vars

----------------------------------------------------------------------------
(* cmd_setup with and without --force, on the same environment *)

\* the same command is run with the force flag flipped, the directories
\* put back as the first run found them
SameEnvironment ==
    /\ run = 1
    /\ LET existed == SelectSeq(log, LAMBDA e : e.kind = "exists")
           repo == IF existed = <<>> THEN fs.repo ELSE existed[1].ok
       IN  Invoke(command, project, ~force, [mount |-> repo, repo |-> repo], Done)

NextForce ==
    \/ NextSetup /\ Follows({"input_url", "stop", "rmtree", "cleanup", "mkdir", "clone",
                            "start", "check", "step"})
    \/ SameEnvironment

SpecForce == InitSetup /\ [][NextForce]_vars

----------------------------------------------------------------------------
(* cmd_setup run again after a run that failed *)

\* after a clone that failed, the same command is run again on the
\* directories the run left; kept of that run are its clone and its result
RunAgain ==
    /\ run = 1
    /\ \E k \in 1..Len(log) : log[k].kind = "clone" /\ ~log[k].ok
    /\ \E frc \in BOOLEAN : Invoke(command, project, frc, fs,
              <<[log |-> SelectSeq(log, LAMBDA e : e.kind = "clone"),
                 out |-> <<>>, ret |-> ret]>>)

NextRetry ==
    \/ NextSetup
    \/ RunAgain

SpecRetry == InitSetup /\ [][NextRetry]_vars

----------------------------------------------------------------------------
(* cmd_setup, then cmd_setup_steps on the same registry *)

InitSteps ==
    /\ FreshHome
    /\ HarnessOff
    /\ pc = "main"
    /\ compose_cmd = "None"
    /\ repo_url = <<>>
    /\ i = 0
    /\ log = <<>>
    /\ out = <<>>
    /\ ret = "None"
    /\ exitStatus = -1
    /\ command = "setup"
    /\ host = HostGood
    /\ project = symfony
    /\ force \in BOOLEAN
    /\ regFile \in {LargestRegistry(symfony), SmallestRegistry(symfony),
                    LargestRegistry(backend), [state |-> "missing", projects |-> EmptyDict]}
    /\ envFile \in {NoFile, File(<<"R", "E", "P", "O", "=", "u", "\n">>)}
    /\ fs \in {[mount |-> FALSE, repo |-> FALSE], [mount |-> TRUE, repo |-> TRUE]}

\* dev setup-symfony after dev setup symfony
StepsOnly ==
    /\ run = 1
    /\ Invoke("setup-symfony", project, force, fs, Done)

NextSteps ==
    \/ NextSetup /\ Follows({"step"})
    \/ StepsOnly
    \/ (CmdSetupSteps \/ SetupStepsStep) /\ Follows({"step"})

SpecSteps == InitSteps /\ [][NextSteps]_vars

----------------------------------------------------------------------------
(* init and aliases, once and again *)

InitHome ==
    /\ HarnessOff
    /\ pc = "main"
    /\ compose_cmd = "None"
    /\ repo_url = <<>>
    /\ i = 0
    /\ log = <<>>
    /\ out = <<>>
    /\ ret = "None"
    /\ exitStatus = -1
    /\ run = 1
    /\ prev = <<>>
    /\ host = HostGood
    /\ project = backend
    /\ force = FALSE
    /\ regFile = SmallestRegistry(backend)
    /\ fs = [mount |-> FALSE, repo |-> FALSE]
    /\ vueDir = "absent"
    /\ \/ /\ command = "init"
          /\ envFile \in {NoFile, File(<<>>), File(<<"A", "=", "b", "\n">>), File(<<"G", "I", "T", "H", "U", "B", "_", "R", "E", "P", "O", "=", "u">>),
                        File(<<"U", "S", "E", "R", "_", "I", "D", "=", "7", "\n">>), File(<<"G", "R", "O", "U", "P", "_", "I", "D", "=", "7", "\n">>),
                        File(<<"#", "U", "S", "E", "R", "_", "I", "D", "=", "\n">>), File(<<"U", "S", "E", "R", "_", "I", "D", "=", "7", "\n", "G", "R", "O", "U", "P", "_", "I", "D", "=", "7", "\n">>)}
          /\ envExample \in {NoFile, File(<<"A", "=", "b", "\n">>)}
          /\ symfonyDir \in {"absent", "code"}
          /\ aliasTemplate = File(<<"a", "l", "i", "a", "s", " ", "d", "e", "v", "=", "'", "/", "p", "a", "t", "h", "/", "t", "o", "/", "d", "e", "v", "-", "e", "n", "v", "i", "r", "o", "n", "m", "e", "n", "t", "/", "d", "e", "v", ".", "p", "y", "'", "\n">>)
          /\ aliasFile = NoFile
          /\ bashrc = File(<<"P", "S", "1", "=", "x", "\n">>)
       \/ /\ command = "aliases"
          /\ envFile = File(<<"A", "=", "b", "\n">>)
          /\ envExample = NoFile
          /\ symfonyDir = "absent"
          /\ aliasTemplate \in {NoFile, File(<<"a", "l", "i", "a", "s", " ", "d", "e", "v", "=", "'", "/", "p", "a", "t", "h", "/", "t", "o", "/", "d", "e", "v", "-", "e", "n", "v", "i", "r", "o", "n", "m", "e", "n", "t", "/", "d", "e", "v", ".", "p", "y", "'", "\n">>)}
          /\ aliasFile \in {NoFile, File(<<"a", "l", "i", "a", "s", " ", "x", "=", "y", "\n">>)}
          /\ bashrc \in {NoFile, File(<<"P", "S", "1", "=", "x", "\n">>), File(<<"#", " ", ".", "b", "a", "s", "h", "_", "a", "l", "i", "a", "s", "e", "s", "\n">>),
                       File(<<".", " ", "~", "/", ".", "b", "a", "s", "h", "_", "a", "l", "i", "a", "s", "e", "s", "\n">>)}

\* the same command once more, on the files the run before left; kept of
\* that run are what it wrote to the three files and its result
Again ==
    /\ run = 1
    /\ Invoke(command, project, force, fs,
              <<[log |-> SelectSeq(log, LAMBDA e : e.kind \in {"copy_env", "ids",
                                                              "write_aliases", "append_bashrc"}),
                 out |-> <<>>, ret |-> ret]>>)

NextHome ==
    \/ Main
    \/ CmdInitEnv
    \/ CmdInitRepos
    \/ CmdInitContainers
    \/ CmdInitAliases
    \/ CmdAliases
    \/ Exit
    \/ Again

SpecHome == InitHome /\ [][NextHome]_vars

----------------------------------------------------------------------------
(* Any command after any command *)

\* how many invocations a behaviour of SpecCli has
MaxRuns == 2

\* the shell before the first invocation
InitCli ==
    /\ HarnessOff
    /\ pc = "exited"
    /\ compose_cmd = "None"
    /\ repo_url = <<>>
    /\ i = 0
    /\ log = <<>>
    /\ out = <<>>
    /\ ret = "None"
    /\ exitStatus = -1
    /\ run = 0
    /\ prev = <<>>
    /\ command = "none"
    /\ host = HostGood
    /\ project = symfony
    /\ force = FALSE
    /\ regFile = [state |-> "ok", projects |-> [p \in {symfony} |-> FullEntry(<<>>, <<migrate>>)]]
    /\ fs = [mount |-> TRUE, repo |-> TRUE]
    /\ envFile \in {NoFile, File(<<"R", "E", "P", "O", "=", "u", "\n">>)}
    /\ envExample = File(<<"A", "=", "b", "\n">>)
    /\ aliasTemplate = File(<<"a", "l", "i", "a", "s", " ", "d", "e", "v", "=", "'", "/", "p", "a", "t", "h", "/", "t", "o", "/", "d", "e", "v", "-", "e", "n", "v", "i", "r", "o", "n", "m", "e", "n", "t", "/", "d", "e", "v", ".", "p", "y", "'", "\n">>)
    /\ aliasFile = NoFile
    /\ bashrc = File(<<"P", "S", "1", "=", "x", "\n">>)
    /\ symfonyDir = "absent"
    /\ vueDir = "absent"

\* the next invocation: any subcommand, forced or not, on the files and
\* directories the last one left
NextCommand ==
    /\ run < MaxRuns
    /\ \E cmd \in {"init", "start", "stop", "restart", "down", "rebuild", "composer",
                   "symfony", "npm", "shell", "mysql", "logs", "status", "aliases",
                   "setup", "setup-symfony", "nuke", "up"},
          frc \in BOOLEAN :
        /\ (frc => cmd \in {"setup", "nuke"})
        /\ Invoke(cmd, project, frc, fs, <<>>)

NextCli ==
    \/ NextSetup
    \/ CmdSetupSteps
    \/ SetupStepsStep
    \/ CmdStart
    \/ CmdStop
    \/ CmdRestart
    \/ CmdStatus
    \/ CmdDown
    \/ CmdRebuild
    \/ CmdLogs
    \/ CmdExec
    \/ CmdShell
    \/ CmdNuke
    \/ CmdUp
    \/ CmdInitEnv
    \/ CmdInitRepos
    \/ CmdInitContainers
    \/ CmdInitAliases
    \/ CmdAliases
    \/ NextCommand

SpecCli == InitCli /\ [][NextCli]_vars
----------------------------------------------------------------------------
(* Properties *)

\* the entries of log of the given kinds, in order
OfKinds(kinds) == SelectSeq(log, LAMBDA e : e.kind \in kinds)

\* the command function has returned
Finished == pc \in {"returned", "exited"}

\* the registry entry of the requested project, as projects.yml declares it
Entry == regFile.projects[project]
ConfiguredServices ==
    <<IF "compose_service" \in DOMAIN Entry THEN Entry.compose_service ELSE project>>
    \o (IF "related_services" \in DOMAIN Entry THEN Entry.related_services ELSE <<>>)
ConfiguredSteps ==
    IF "setup_steps" \in DOMAIN Entry THEN Entry.setup_steps ELSE <<>>
ConfiguredSubdir ==
    IF "repo_subdir" \in DOMAIN Entry THEN Entry.repo_subdir ELSE app

\* C1: a cmd_setup run that reports success has performed, in this order and
\* with nothing else of these kinds: one stop per service of [service] +
\* related services, the removal of the repository subdirectory exactly when
\* it existed, one clone, one start per service of the same list, readiness
\* checks of which the last and only the last saw the container running, and
\* every configured setup step once, in the configured order.
C1_SuccessOrder ==
    (command = "setup" /\ ret = "True") =>
        LET a == OfKinds({"stop", "rmtree", "cleanup", "clone", "start", "check", "step"})
            n == Len(ConfiguredServices)
            m == Len(ConfiguredSteps)
            r == Len(OfKinds({"rmtree", "cleanup"}))
            c == Len(OfKinds({"check"}))
            ex == OfKinds({"exists"})
        IN  /\ Len(a) = n + r + 1 + n + c + m
            /\ \A j \in 1..n : a[j].kind = "stop" /\ a[j].arg = ConfiguredServices[j]
            /\ ex # <<>>
            /\ IF ex[Len(ex)].ok
               THEN \/ /\ r = 1
                       /\ a[n + 1] = Act("rmtree", ConfiguredSubdir, TRUE)
                    \/ /\ r = 2
                       /\ a[n + 1] = Act("rmtree", ConfiguredSubdir, FALSE)
                       /\ a[n + 2] = Act("cleanup", ConfiguredSubdir, TRUE)
               ELSE r = 0
            /\ a[n + r + 1].kind = "clone" /\ a[n + r + 1].ok
            /\ \A j \in 1..n : /\ a[n + r + 1 + j].kind = "start"
                               /\ a[n + r + 1 + j].arg = ConfiguredServices[j]
            /\ c \in 1..15
            /\ \A j \in 1..c : /\ a[2 * n + r + 1 + j].kind = "check"
                               /\ a[2 * n + r + 1 + j].ok <=> (j = c)
            /\ \A j \in 1..m : a[2 * n + r + 1 + c + j] = Act("step", ConfiguredSteps[j], TRUE)

C1_Witness ==
    /\ command = "setup"
    /\ ret = "True"
    /\ Len(OfKinds({"stop"})) = 2
    /\ Len(OfKinds({"rmtree", "cleanup"})) = 2
    /\ Len(OfKinds({"check"})) = 3
    /\ Len(OfKinds({"step"})) = 2

\* C2: cmd_setup performs at most 15 readiness checks and none after a check
\* that saw the container running; no setup step is executed unless a check
\* saw the container running; and when the 15th check still has not, the
\* procedure has reported failure with the timeout error and run no step.
C2_ReadinessBudget ==
    command = "setup" =>
        LET checks == OfKinds({"check"})
            steps == OfKinds({"step"})
        IN  /\ Len(checks) <= 15
            /\ \A j \in 1..Len(checks) : checks[j].ok => j = Len(checks)
            /\ steps # <<>> => (checks # <<>> /\ checks[Len(checks)].ok)
            /\ (Finished /\ checks # <<>> /\ ~checks[Len(checks)].ok) =>
                   Len(checks) = 15
            /\ (Len(checks) = 15 /\ ~checks[15].ok) =>
                   /\ pc = "returned" \/ pc = "exited"
                   /\ ret = "False"
                   /\ steps = <<>>
                   /\ out[Len(out)].lvl = "error"
                   /\ out[Len(out)].msg = "Container failed to start within seconds"

C2_Witness ==
    /\ command = "setup"
    /\ Len(OfKinds({"check"})) = 15
    /\ \A j \in 1..15 : ~OfKinds({"check"})[j].ok
    /\ OfKinds({"step"}) = <<>>
    /\ ret = "False"

\* the part of claim C3 that the code and the claim agree on: when setup
\* step k is the first to fail, the steps executed are steps 1..k of the
\* configured list, once each and in order, steps 1..k-1 succeeded and were
\* each reported as completed, step k is the last step executed, and the
\* procedure has returned failure
C3_FirstFailure(k) ==
    LET steps == OfKinds({"step"})
        completed == SelectSeq(out, LAMBDA e : e.msg = "Step completed")
    IN  /\ k <= Len(ConfiguredSteps)
        /\ \A j \in 1..k : steps[j].arg = ConfiguredSteps[j] /\ (steps[j].ok <=> j < k)
        /\ Len(completed) = k - 1
        /\ \A j \in 1..(k - 1) : completed[j].lvl = "success" /\ completed[j].num = j
        /\ Finished
        /\ ret = "False"
        /\ log[Len(log)] = steps[k]

\* a setup step has failed
C3_StepFailed == command = "setup" /\ \E j \in 1..Len(log) : log[j].kind = "step" /\ ~log[j].ok

\* C3 (as stated): when setup step k is the first to fail, steps 1..k-1 were
\* executed once each in order and reported as completed, no step after k is
\* executed, the procedure reports failure, and the failure report names the
\* step number and the command that failed.
C3_Original ==
    C3_StepFailed =>
        LET k == Len(OfKinds({"step"}))
            report == out[Len(out)]
        IN  /\ C3_FirstFailure(k)
            /\ report.lvl = "error"
            /\ report.msg = "Setup step failed"
            /\ report.arg = ConfiguredSteps[k]
            /\ report.num = k

\* C3 (amended): as above, except that the failure report names the command
\* that failed and no step number; the number of the failed step is in the
\* progress line "[k/total] Running: <command>" reported just before it.
C3_FailureReport ==
    C3_StepFailed =>
        LET k == Len(OfKinds({"step"}))
            report == out[Len(out)]
            progress == out[Len(out) - 1]
        IN  /\ C3_FirstFailure(k)
            /\ report = SayA("error", "Setup step failed", ConfiguredSteps[k])
            /\ progress = SayN("info", "Running", k, Len(ConfiguredSteps), ConfiguredSteps[k])

C3_Witness ==
    /\ C3_StepFailed
    /\ Len(OfKinds({"step"})) = 2
    /\ Len(ConfiguredSteps) = 2
    /\ ret = "False"

\* C4: when projects.yml is missing, malformed or lacks the projects key, or
\* the requested project is not in it, cmd_setup goes from its start straight
\* to returning failure: it shows no prompt and attempts no stop, removal,
\* clone, start, readiness check or setup step.
C4_NoRegistryNoEffect ==
    (/\ command = "setup"
     /\ \/ regFile.state \in {"missing", "malformed", "empty", "nokey"}
        \/ project \notin DOMAIN regFile.projects) =>
        /\ pc \in {"main", "dispatch", "returned", "exited"}
        /\ pc = "returned" => ret = "False"
        /\ ret # "True"
        /\ OfKinds({"input_url", "input_confirm", "exists", "stop", "rmtree", "cleanup",
                    "mkdir", "clone", "start", "check", "step"}) = <<>>

C4_Witness ==
    /\ command = "setup"
    /\ pc = "returned"
    /\ ret = "False"
    /\ regFile.state = "ok"
    /\ DOMAIN regFile.projects # {}
    /\ project \notin DOMAIN regFile.projects

\* the answer, blanks aside, is the letter y in either case
C5_Affirmative(answer) ==
    SelectSeq(answer, LAMBDA ch : ch \notin Whitespace) \in {<<"y">>, <<"Y">>}

\* C5: when cmd_setup has asked for confirmation (the repository subdirectory
\* exists and the force flag is unset) and the answer is anything other than
\* affirmative, the procedure has reported cancellation and returned failure,
\* nothing was done after the answer, and no stop, deletion, clone or start
\* has occurred: the repository subdirectory is still there.
C5_DeclinedNoEffect ==
    \A j \in 1..Len(log) :
        (log[j].kind = "input_confirm" /\ ~C5_Affirmative(log[j].arg)) =>
            /\ ~force
            /\ fs.repo
            /\ j = Len(log)
            /\ OfKinds({"stop", "rmtree", "cleanup", "mkdir", "clone", "start",
                        "check", "step"}) = <<>>
            /\ Finished
            /\ ret = "False"
            /\ out[Len(out)] = Say("info", "Setup cancelled")

C5_Witness ==
    /\ pc = "returned"
    /\ log # <<>>
    /\ log[Len(log)] = Act("input_confirm", <<"y", "e", "s">>, TRUE)
    /\ ret = "False"

\* C6: the exit status is zero when the dispatched command function reports
\* success and non-zero when it reports failure.
C6_ExitStatus ==
    (pc = "exited" /\ ret # "None") => (exitStatus = 0 <=> ret = "True")

\* the container engine, its daemon and an orchestration front-end are there
C7_Available(h) == h.docker /\ h.daemon /\ (h.plugin \/ h.legacy)

\* C7: for every subcommand other than aliases, if the container engine is
\* missing, its daemon is not running or the orchestration front-end is
\* unavailable, the program exits non-zero before any command function is
\* dispatched.
C7_UnavailableExits ==
    (command \notin {"none", "bogus", "aliases"} /\ ~C7_Available(host)) =>
        /\ pc \in {"main", "exited"}
        /\ pc = "exited" => exitStatus # 0
        /\ ret = "None"

\* s without the whitespace at its end
C8_TrailingTrimmed(s) ==
    LET n == CHOOSE n \in 0..Len(s) :
                 /\ n = 0 \/ s[n] \notin Whitespace
                 /\ \A k \in (n + 1)..Len(s) : s[k] \in Whitespace
    IN  SubSeq(s, 1, n)

\* s without the whitespace at its start and at its end
C8_Trimmed(s) ==
    LET t == C8_TrailingTrimmed(s)
        m == CHOOSE m \in 1..(Len(t) + 1) :
                 /\ m = Len(t) + 1 \/ t[m] \notin Whitespace
                 /\ \A k \in 1..(m - 1) : t[k] \in Whitespace
    IN  SubSeq(t, m, Len(t))

\* what claim C8 says run_command returns, for a way Trim of trimming the
\* captured output
C8_Returns(Trim(_)) ==
    hpc = "done" =>
        IF ~hin.capture_output
        THEN hout.value = BoolV(hin.proc.rc = 0)
        ELSE IF hin.proc.rc # 0 /\ hin.check
             THEN hout.value = BoolV(FALSE)
             ELSE hout.value = StrV(Trim(hin.proc.stdout))

\* C8 (as stated): not capturing, run_command returns true iff the exit status
\* is zero, with or without enforcement; capturing, it returns the standard
\* output with trailing whitespace trimmed, or the failure indicator exactly
\* when the exit status is non-zero and enforcement is enabled.
C8_Original == C8_Returns(C8_TrailingTrimmed)

\* C8 (amended): the same, the captured standard output being trimmed of
\* whitespace at both ends, leading as well as trailing.
C8_RunCommandResult == C8_Returns(C8_Trimmed)

C8_Witness ==
    /\ hpc = "done"
    /\ hin.capture_output
    /\ hin.check
    /\ hin.proc.rc = 0
    /\ hin.proc.stdout = <<" ", "a", "\n">>
    /\ hout.value = StrV(<<"a">>)

\* the mapping the lines of a file stand for: each key of a pair line bound
\* to the value of the last pair line with that key
C9_Expected(lines) ==
    LET pairs == SelectSeq(lines, LAMBDA d : d.kind = "pair")
    IN  [k \in {pairs[j].key : j \in 1..Len(pairs)} |->
            pairs[CHOOSE j \in 1..Len(pairs) :
                      /\ pairs[j].key = k
                      /\ \A l \in (j + 1)..Len(pairs) : pairs[l].key # k].value]

\* C9: load_env_file returns the mapping in which each key K is bound to the
\* value of the last non-comment, non-empty line K=V for that K, split at the
\* first "=", both sides trimmed, the quotes stripped only when the value is
\* wholly wrapped in matching quotes; lines without "=" contribute nothing.
C9_LoadEnvFile == hpc = "done" => hout = C9_Expected(hin.lines)

\* a and b are the same character, or the same letter in different cases
C10_SameLetter(a, b) ==
    a = b \/ \E k \in 1..26 : {a, b} = {UpperLetters[k], LowerLetters[k]}

\* sub occurs in s, the case of letters ignored
C10_ContainsAnyCase(sub, s) ==
    \E k \in 0..(Len(s) - Len(sub)) :
        \A j \in 1..Len(sub) : C10_SameLetter(s[k + j], sub[j])

\* C10: is_placeholder_value returns true iff the value is empty or contains,
\* case-insensitively, one of the placeholder substrings; the repository URL
\* git@host:org/repo.git is classified as not a placeholder.
C10_Classification ==
    hpc = "done" =>
        /\ hout <=> \/ hin = <<>>
                    \/ \E n \in 1..Len(placeholder_indicators) :
                           C10_ContainsAnyCase(placeholder_indicators[n], hin)
        /\ hin = RealUrl => ~hout

C10_Witness ==
    /\ hpc = "done"
    /\ hout
    /\ hin # <<>>
    /\ Lower(hin) # hin


----------------------------------------------------------------------------
(* cmd_setup: services, removal, repository URL *)

\* the actions of cmd_setup that follow the stop loop
AfterStopKinds == {"rmtree", "cleanup", "mkdir", "clone", "start", "check", "step"}

\* C13: in cmd_setup the stop commands issued so far go to the services of
\* [service] + related services in list order, one each; once the stop loop
\* is over every service has received exactly one stop, whatever the stops
\* returned; start commands are issued only after a successful clone, in
\* the same list order, one each, and once the start loop is over every
\* service has received exactly one start, whatever the starts returned; no
\* run ends on a stop or a start.
C13_BestEffort ==
    (command = "setup" /\ OfKinds({"stop"}) # <<>>) =>
        LET stops == OfKinds({"stop"})
            starts == OfKinds({"start"})
            clones == OfKinds({"clone"})
            acts == OfKinds(AfterStopKinds \cup {"stop"})
        IN  /\ Len(stops) <= Len(ConfiguredServices)
            /\ \A j \in 1..Len(stops) : stops[j].arg = ConfiguredServices[j]
            /\ (stops # <<>> /\ pc # "stop") => Len(stops) = Len(ConfiguredServices)
            /\ OfKinds(AfterStopKinds) # <<>> => Len(stops) = Len(ConfiguredServices)
            /\ Len(starts) <= Len(ConfiguredServices)
            /\ \A j \in 1..Len(starts) : starts[j].arg = ConfiguredServices[j]
            /\ starts # <<>> => (Len(clones) = 1 /\ clones[1].ok)
            /\ (clones # <<>> /\ clones[1].ok /\ pc # "start")
                   => Len(starts) = Len(ConfiguredServices)
            /\ (Finished /\ acts # <<>>) => acts[Len(acts)].kind \notin {"stop", "start"}

\* a successful run in which a stop and a start of the first service failed
\* and the related service was stopped and started all the same
C13_Witness ==
    /\ command = "setup"
    /\ ret = "True"
    /\ Len(OfKinds({"stop"})) = 2
    /\ ~OfKinds({"stop"})[1].ok
    /\ Len(OfKinds({"start"})) = 2
    /\ ~OfKinds({"start"})[1].ok
    /\ OfKinds({"step"}) # <<>>

\* an entry of out with this message
Reported(msg) == \E k \in 1..Len(out) : out[k].msg = msg

\* C14: in cmd_setup every removal acts on the repository subdirectory and
\* the mount directory, once it exists, stays; there is at most one rmtree,
\* and the containerized removal is run exactly after an rmtree that failed
\* with a permission error; when the containerized removal fails, or rmtree
\* fails in any other way, the run has returned False and has performed no
\* mkdir, clone, start, readiness check or setup step.
C14_Removal ==
    (command = "setup" /\ OfKinds({"rmtree", "cleanup"}) # <<>>) =>
        LET rm == OfKinds({"rmtree", "cleanup"})
            last == rm[Len(rm)]
            permission == Reported("Permission error - cleaning up via Docker...")
        IN  /\ \A j \in 1..Len(rm) : rm[j].arg = ConfiguredSubdir
            /\ fs.mount
            /\ rm[1].kind = "rmtree"
            /\ Len(rm) <= 2
            /\ Len(rm) = 2 => (rm[2].kind = "cleanup" /\ ~rm[1].ok /\ permission)
            /\ (permission /\ pc # "cleanup") => Len(rm) = 2
            /\ (~permission) => Len(rm) = 1
            /\ (~last.ok /\ pc # "cleanup") =>
                   /\ Finished
                   /\ ret = "False"
                   /\ OfKinds({"mkdir", "clone", "start", "check", "step"}) = <<>>
                   /\ fs.repo
            /\ last.ok => ~fs.repo \/ OfKinds({"clone"}) # <<>>

\* a run that fell back to the containerized removal, which failed too
C14_Witness ==
    /\ command = "setup"
    /\ Len(OfKinds({"rmtree", "cleanup"})) = 2
    /\ ~OfKinds({"cleanup"})[1].ok
    /\ ret = "False"
    /\ Reported("Failed to remove directory even with Docker cleanup")

\* the value cmd_setup finds for the configured variable in the
\* environment file, <<>> when the reader returns no such key
C16_EnvValue ==
    LET env_vars == LoadEnvFile(envFile)
    IN  IF Entry.repo_env_var \in DOMAIN env_vars
        THEN env_vars[Entry.repo_env_var]
        ELSE <<>>

\* empty, or holding one of the placeholder markers in any letter case
C16_Placeholder(value) ==
    \/ value = <<>>
    \/ \E k \in 1..Len(placeholder_indicators) :
           Contains(placeholder_indicators[k], Lower(value))

\* cmd_setup has settled the repository URL, or has given up on it
C16_PastUrl ==
    /\ command = "setup"
    /\ pc \notin {"main", "dispatch", "url_prompt"}
    /\ ret # "None" \/ pc # "exited"
    /\ regFile.state = "ok"
    /\ project \in DOMAIN regFile.projects

\* C16: cmd_setup shows the repository URL prompt exactly when the
\* configured variable is absent from the environment file, empty or a
\* placeholder, and then once; when the answer, trimmed of surrounding
\* white space, is empty the run has returned False with 'No repository URL
\* provided' and has performed no existence check, confirmation prompt,
\* stop, removal or clone; otherwise every clone is given the environment
\* value when no prompt was shown and the trimmed answer when one was.
C16_RepositoryUrl ==
    C16_PastUrl =>
        LET asked == OfKinds({"input_url"})
            clones == OfKinds({"clone"})
        IN  /\ Len(asked) <= 1
            /\ asked # <<>> <=> (\E value \in {C16_EnvValue} : C16_Placeholder(value))
            /\ (asked # <<>> /\ Strip(asked[1].arg) = <<>>) =>
                   /\ Finished
                   /\ ret = "False"
                   /\ Reported("No repository URL provided")
                   /\ OfKinds({"exists", "input_confirm", "stop", "rmtree", "cleanup",
                               "mkdir", "clone", "start", "check", "step"}) = <<>>
            /\ (asked # <<>> /\ Strip(asked[1].arg) # <<>>) =>
                   /\ ~Reported("No repository URL provided")
                   /\ clones # <<>> => clones[1].arg = Strip(asked[1].arg)
            /\ Len(clones) <= 1
            /\ asked = <<>> =>
                   /\ ~Reported("No repository URL provided")
                   /\ clones # <<>> => clones[1].arg = C16_EnvValue

\* a run that prompted because the file holds the template URL and cloned
\* from the answer
C16_Witness ==
    /\ C16_PastUrl
    /\ C16_EnvValue = TemplateUrl
    /\ OfKinds({"input_url"}) # <<>>
    /\ OfKinds({"clone"}) # <<>>
    /\ OfKinds({"clone"})[1].arg = RealUrl

----------------------------------------------------------------------------
(* cmd_setup: termination *)

\* what cmd_setup has done so far: no kind of action is repeated beyond
\* its fixed budget, and nothing that failed is tried again
C20_Bounded ==
    (command = "setup" /\ project \in DOMAIN regFile.projects) =>
        LET acts == OfKinds({"stop", "rmtree", "cleanup", "mkdir", "clone",
                             "start", "check", "step"})
            count(kind) == Len(OfKinds({kind}))
        IN  /\ count("input_url") <= 1
            /\ count("input_confirm") <= 1
            /\ count("exists") <= 2
            /\ count("stop") <= Len(ConfiguredServices)
            /\ count("rmtree") <= 1
            /\ count("cleanup") <= 1
            /\ count("mkdir") <= 1
            /\ count("clone") <= 1
            /\ count("start") <= Len(ConfiguredServices)
            /\ count("check") <= 15
            /\ count("step") <= Len(ConfiguredSteps)
            /\ \A j \in 1..(Len(acts) - 1) :
                   ~acts[j].ok => ~(/\ acts[j + 1].kind = acts[j].kind
                                    /\ acts[j + 1].arg = acts[j].arg
                                    /\ acts[j].kind # "check")

\* C20: every run of cmd_setup comes to an end, having returned a result,
\* and on the way every kind of action stays within its budget: one URL
\* prompt, one confirmation prompt, one stop and one start per service,
\* one rmtree, one containerized removal, one clone, at most 15 readiness
\* checks, one execution per setup step; and a stop, removal, clone, start
\* or setup step that failed is not run a second time.
C20_Terminates == []C20_Bounded /\ <>(pc = "exited" /\ ret \in {"True", "False"})

\* a run that ended after it used the whole budget of readiness checks
C20_Witness ==
    /\ command = "setup"
    /\ pc = "exited"
    /\ Len(OfKinds({"check"})) = 15
    /\ ret = "False"

----------------------------------------------------------------------------
(* cmd_setup: the force flag *)

\* the actions of a run that the claim compares, with their outcomes
C12_Effects(actions) ==
    SelectSeq(actions, LAMBDA e : e.kind \in {"stop", "rmtree", "cleanup", "clone",
                                              "start", "check", "step"})

\* every confirmation prompt of the run was answered with a yes
C12_Agreed(actions) ==
    \A k \in 1..Len(actions) :
        actions[k].kind = "input_confirm" => C5_Affirmative(actions[k].arg)

\* C12: a cmd_setup run with force set and a run with force unset, on the
\* same project, files and directories, given the same answer at the URL
\* prompt and the same outcome of every external command, the unforced one
\* answered with a yes when it asks for confirmation: both perform the same
\* stop, removal, clone, start, readiness-check and setup-step actions with
\* the same outcomes in the same order and return the same result, and
\* only the unforced one shows a confirmation prompt.
C12_ForceOnlyPrompt ==
    (run = 2 /\ pc = "exited" /\ C12_Agreed(log) /\ C12_Agreed(prev[1].log)) =>
        /\ C12_Effects(log) = C12_Effects(prev[1].log)
        /\ ret = prev[1].ret
        /\ PermissionDenied(out) = PermissionDenied(prev[1].out)
        /\ \A k \in 1..Len(log) : log[k].kind = "input_confirm" => ~force
        /\ \A k \in 1..Len(prev[1].log) : prev[1].log[k].kind = "input_confirm" => force

\* a forced run and then an unforced, confirmed one that both fell back to
\* the containerized removal and both aborted on the failed clone
C12_Witness ==
    /\ run = 2
    /\ pc = "exited"
    /\ ~force
    /\ \E k \in 1..Len(log) : log[k].kind = "input_confirm"
    /\ \E k \in 1..Len(log) : log[k].kind = "cleanup" /\ log[k].ok
    /\ \E k \in 1..Len(log) : log[k].kind = "clone" /\ ~log[k].ok
    /\ ret = "False"

----------------------------------------------------------------------------
(* cmd_setup: a clone that failed *)

\* the clone of the run failed
C15_CloneFailed(actions) ==
    \E k \in 1..Len(actions) : actions[k].kind = "clone" /\ ~actions[k].ok

\* the run has its repository URL and has looked for the repository
\* subdirectory
C15_Looked(actions) ==
    \E k \in 1..Len(actions) : actions[k].kind = "exists"

\* C15: a clone that fails makes cmd_setup report the failure and return
\* False without starting a service, checking for readiness or running a
\* setup step; a later run that finds the repository subdirectory absent
\* and obtains a repository URL shows no confirmation prompt, force set or
\* not, stops every configured service and attempts the clone.
C15_CloneFailure ==
    /\ C15_CloneFailed(log) =>
           /\ Finished
           /\ ret = "False"
           /\ log[Len(log)].kind = "clone"
           /\ Reported("Failed to clone repository")
           /\ OfKinds({"start", "check", "step"}) = <<>>
    /\ (run = 2 /\ C15_CloneFailed(prev[1].log) /\ C15_Looked(log)
               /\ ~OfKinds({"exists"})[1].ok /\ pc = "exited") =>
           /\ OfKinds({"input_confirm"}) = <<>>
           /\ Len(OfKinds({"stop"})) = Len(all_services)
           /\ Len(OfKinds({"clone"})) = 1
           /\ OfKinds({"clone"})[1].ok =>
                  /\ Len(OfKinds({"start"})) = Len(all_services)
                  /\ OfKinds({"check"}) # <<>>

\* a run whose clone failed, then an unforced run that found the
\* subdirectory absent, asked nothing and cloned successfully
C15_Witness ==
    /\ run = 2
    /\ pc = "exited"
    /\ ~force
    /\ C15_CloneFailed(prev[1].log)
    /\ OfKinds({"input_confirm"}) = <<>>
    /\ \E k \in 1..Len(log) : log[k].kind = "clone" /\ log[k].ok
    /\ ret = "True"

----------------------------------------------------------------------------
(* cmd_setup_steps *)

\* the registry has no entry the reduced variant can use
C17_Unknown ==
    \/ regFile.state # "ok"
    \/ symfony \notin DOMAIN regFile.projects

\* the readiness checks of the run ended with the container running
C17_Running(actions) ==
    LET checks == SelectSeq(actions, LAMBDA e : e.kind = "check")
    IN  checks # <<>> /\ checks[Len(checks)].ok

\* the setup-step actions of a run
C17_Steps(actions) == SelectSeq(actions, LAMBDA e : e.kind = "step")

\* C17: cmd_setup_steps looks the project up, checks once that the container
\* is running and runs the setup steps: it never stops, removes, clones or
\* starts anything; it returns False without running a step when the
\* project is unknown or the container is not running; and, given the
\* registry entry and the step outcomes of a cmd_setup run that reached its
\* step 9, with the container found running, it runs the same steps in the
\* same order up to the same first failure and returns the same result, an
\* empty step list being success.
C17_ReducedVariant ==
    (command = "setup-symfony") =>
        /\ OfKinds({"exists", "input_url", "input_confirm", "stop", "rmtree",
                    "cleanup", "mkdir", "clone", "start"}) = <<>>
        /\ Len(OfKinds({"check"})) <= 1
        /\ (pc = "exited" /\ (C17_Unknown \/ ~C17_Running(log))) =>
               ret = "False" /\ C17_Steps(log) = <<>>
        /\ (pc = "exited" /\ C17_Running(log) /\ C17_Running(prev[1].log)) =>
               /\ C17_Steps(log) = C17_Steps(prev[1].log)
               /\ ret = prev[1].ret
               /\ C17_Steps(log) = <<>> => ret = "True"

\* a setup whose second step failed, and a rerun of the steps that found
\* the container running and failed at the same step
C17_Witness ==
    /\ command = "setup-symfony"
    /\ pc = "exited"
    /\ C17_Running(log)
    /\ C17_Running(prev[1].log)
    /\ Len(C17_Steps(log)) = 2
    /\ ~C17_Steps(log)[2].ok
    /\ ret = "False"

----------------------------------------------------------------------------
(* cmd_init: the user and group IDs *)

\* the identifier step of the run has been done
C18_StepDone(actions) == \E k \in 1..Len(actions) : actions[k].kind = "ids"

\* the identifier step of the run appended to the environment file
C18_Appended(actions) == \E k \in 1..Len(actions) : actions[k].kind = "ids" /\ actions[k].ok

\* running init again on the file an identifier step left appends nothing
C18_Idempotent ==
    (command = "init" /\ run = 2 /\ C18_StepDone(prev[1].log)) => ~C18_Appended(log)

\* C18: after the identifier step of cmd_init the environment file defines
\* both USER_ID and GROUP_ID (they are appended exactly when not already
\* present), and running init again on the resulting file appends nothing
\* further.
C18_IdentifiersDefined ==
    /\ (command = "init" /\ C18_StepDone(log)) =>
           \E env_vars \in {LoadEnvFile(envFile)} :
               /\ <<"U", "S", "E", "R", "_", "I", "D">> \in DOMAIN env_vars
               /\ <<"G", "R", "O", "U", "P", "_", "I", "D">> \in DOMAIN env_vars
    /\ C18_Idempotent

----------------------------------------------------------------------------
(* cmd_aliases *)

\* the template of the model with the program path in place of the token
C19_Expected == File(<<"a", "l", "i", "a", "s", " ", "d", "e", "v", "=", "'", "/", "s", "r", "v", "/", "d", "e", "v", "/", "d", "e", "v", ".", "p", "y", "'", "\n">>)

\* a line of the file, not a comment, reads ~/.bash_aliases into the shell
C19_Sources(file) ==
    /\ file.exists
    /\ \E k \in 1..Len(SplitLines(file.text)) :
          LET line == Strip(SplitLines(file.text)[k])
          IN  /\ ~StartsWith(line, "#")
              /\ \/ Contains(<<".", " ", "~", "/", ".", "b", "a", "s", "h", "_", "a", "l", "i", "a", "s", "e", "s">>, line)
                 \/ Contains(<<"s", "o", "u", "r", "c", "e", " ", "~", "/", ".", "b", "a", "s", "h", "_", "a", "l", "i", "a", "s", "e", "s">>, line)

\* cmd_aliases reported success in this run
C19_Success == Reported("Aliases installed successfully!")

\* on success the alias file is the template with the token substituted
C19_Overwritten == C19_Success => aliasFile = C19_Expected

\* a second installation adds no second source block
C19_OneBlock ==
    (run = 2 /\ \E k \in 1..Len(prev[1].log) : prev[1].log[k].kind = "write_aliases") =>
        OfKinds({"append_bashrc"}) = <<>>

\* C19: whenever cmd_aliases reports success the alias file holds exactly
\* the project template's content with the path token substituted, nothing
\* of its previous content remaining, and the shell startup file sources the
\* alias file; repeating the installation adds no second source block to
\* the startup file.
C19_AliasesInstalled ==
    /\ C19_Overwritten
    /\ C19_Success => C19_Sources(bashrc)
    /\ C19_OneBlock

----------------------------------------------------------------------------
(* What the commands write *)

\* C11: no command other than init writes the environment file, no command
\* other than init and aliases writes the alias file, and no command writes
\* the registry file: in any sequence of invocations every step of status,
\* setup, setup-symfony and of every other command leaves the files it may
\* not write as they were.
C11_Frame ==
    [][/\ regFile' = regFile
       /\ command # "init" => envFile' = envFile
       /\ command \notin {"init", "aliases"} => aliasFile' = aliasFile]_vars

\* init has written the environment file and the alias file, and a setup
\* run after it has ended with both still there
C11_Witness ==
    /\ run = 2
    /\ command = "setup"
    /\ pc = "exited"
    /\ OfKinds({"clone"}) # <<>>
    /\ Contains(<<"U", "S", "E", "R", "_", "I", "D", "=">>, envFile.text)
    /\ aliasFile.exists

----------------------------------------------------------------------------
(* cmd_setup: what an abort leaves *)

\* the run returned False from the removal step or from the clone step
C21_Aborted ==
    /\ command = "setup"
    /\ Finished
    /\ ret = "False"
    /\ log # <<>>
    /\ log[Len(log)].kind \in {"rmtree", "cleanup", "clone"}
    /\ ~log[Len(log)].ok

\* every configured service was issued one stop, in list order, and no
\* start was issued
C21_StopsIssued ==
    LET stops == OfKinds({"stop"})
    IN  /\ Len(stops) = Len(ConfiguredServices)
        /\ \A j \in 1..Len(stops) : stops[j].arg = ConfiguredServices[j]
        /\ OfKinds({"start", "check", "step"}) = <<>>

\* every stop command of the run succeeded
C21_AllStopped == \A j \in 1..Len(log) : log[j].kind = "stop" => log[j].ok

\* the claim as stated: an abort in the removal step or the clone step
\* leaves every service stopped, a service being stopped when its stop
\* command succeeded
C21_Original == C21_Aborted => (C21_StopsIssued /\ C21_AllStopped)

\* C21: whenever cmd_setup aborts in the removal step or the clone step,
\* every service of [service] + related services has been issued a stop
\* command, in list order, and no start command (nor readiness check nor
\* setup step) is issued afterwards; the outcome of the stop commands is
\* not looked at, so the services are left stopped when those commands
\* succeeded.
C21_StoppedNotRestarted == C21_Aborted => C21_StopsIssued

\* a run that aborted on its clone after stopping two services, the first
\* of the stop commands having failed
C21_Witness ==
    /\ C21_Aborted
    /\ log[Len(log)].kind = "clone"
    /\ Len(OfKinds({"stop"})) = 2
    /\ ~OfKinds({"stop"})[1].ok
    /\ OfKinds({"stop"})[2].ok

----------------------------------------------------------------------------
(* cmd_setup: the URL typed at the prompt *)

\* the answers given at the repository URL prompt in this run
C23_Answers == OfKinds({"input_url"})

\* the value contains one of the placeholder words, in any case
C23_LooksLikePlaceholder(value) ==
    \E k \in 1..Len(placeholder_indicators) :
        Contains(placeholder_indicators[k], Lower(value))

\* C23: in cmd_setup the user is prompted for the repository URL at most
\* once per run, and an answer that is not empty once trimmed is not put
\* through the placeholder detector again: whether or not
\* is_placeholder_value would call it a placeholder, the run goes on to
\* the existence check with the trimmed answer as its repository URL, and
\* the clone, when the run gets to it, is given exactly that URL.
C23_TypedUrlUsed ==
    command = "setup" =>
        /\ Len(C23_Answers) <= 1
        /\ Len(SelectSeq(out, LAMBDA o : o.msg = "Please enter the repository URL for")) <= 1
        /\ (C23_Answers # <<>> /\ Strip(C23_Answers[1].arg) # <<>>) =>
               /\ repo_url = Strip(C23_Answers[1].arg)
               /\ OfKinds({"exists"}) # <<>>
               /\ ~Reported("No repository URL provided")
               /\ \A j \in 1..Len(log) :
                      log[j].kind = "clone" => log[j].arg = Strip(C23_Answers[1].arg)

\* a run that was given a URL with a placeholder word in it at the prompt
\* and cloned from it
C23_Witness ==
    /\ command = "setup"
    /\ Len(C23_Answers) = 1
    /\ C23_LooksLikePlaceholder(Strip(C23_Answers[1].arg))
    /\ \E j \in 1..Len(log) :
           /\ log[j].kind = "clone"
           /\ log[j].ok
           /\ log[j].arg = Strip(C23_Answers[1].arg)
    /\ ret = "True"

----------------------------------------------------------------------------
(* The commands that ask before they act *)

\* what a command function does, as opposed to the checks of __main__ and
\* the prompts
C22_Effects(actions) ==
    SelectSeq(actions, LAMBDA e : e.kind \notin {"docker_ps", "compose_version",
                                                 "input_confirm", "input_nuke",
                                                 "input_replace"})

\* the answer the command reads is its affirmative token: y in either case,
\* NUKE in capitals for nuke, blanks around it aside
C22_Affirmative(cmd, answer) ==
    LET read == SelectSeq(answer, LAMBDA ch : ch \notin Whitespace)
    IN  IF cmd = "nuke" THEN read = <<"N", "U", "K", "E">> ELSE read \in {<<"y">>, <<"Y">>}

\* the prompts of the command and the answers given
C22_Asked(actions) ==
    SelectSeq(actions, LAMBDA e : e.kind \in {"input_confirm", "input_nuke", "input_replace"})

\* the prompt of this run was declined
C22_Declined(cmd, actions) ==
    /\ cmd \in {"down", "rebuild", "nuke", "aliases"}
    /\ C22_Asked(actions) # <<>>
    /\ ~C22_Affirmative(cmd, C22_Asked(actions)[1].arg)

\* the five cleanup phases of nuke, the removals of single images aside
C22_Phases(actions) ==
    [k \in 1..Len(SelectSeq(C22_Effects(actions), LAMBDA e : e.kind # "rmi")) |->
        SelectSeq(C22_Effects(actions), LAMBDA e : e.kind # "rmi")[k].kind]

\* what holds of every state of a gated command
C22_State ==
    /\ (command \in {"down", "rebuild"} /\ pc \notin {"main", "dispatch"}
            /\ exitStatus \notin {1, 2}) => Len(C22_Asked(log)) = 1
    /\ (command = "aliases" /\ C22_Effects(log) # <<>>) =>
           /\ C22_Effects(log)[1].kind = "write_aliases"
           /\ C22_Asked(log) # <<>> => C22_Affirmative(command, C22_Asked(log)[1].arg)
    /\ C22_Declined(command, log) =>
           /\ Finished
           /\ ret = "False"
           /\ C22_Effects(log) = <<>>
    /\ (command = "nuke" /\ force) => C22_Asked(log) = <<>>
    /\ (command = "nuke" /\ ~force /\ pc \notin {"main", "dispatch"}
            /\ exitStatus \notin {1, 2}) => Len(C22_Asked(log)) = 1
    /\ (command = "nuke" /\ Finished /\ ~C22_Declined(command, log)) =>
           /\ C22_Phases(log) = <<"compose_down", "compose_down_volumes", "compose_images",
                                  "builder_prune", "system_prune">>
           /\ \A k \in 1..Len(log) :
                  log[k].kind = "rmi" =>
                      /\ k > 1 /\ log[k - 1].kind \in {"compose_images", "rmi"}
           /\ ret = "True"

\* C22: for down, rebuild, nuke without --force and aliases when the alias
\* file already exists, an answer other than the affirmative token (y in
\* either case, NUKE in capitals for nuke) makes the command return False
\* having run no external command, and the step that reads the answer
\* writes no file; nuke with --force shows no prompt, and nuke confirmed or
\* forced always runs its five cleanup phases in order, whatever fails, and
\* returns True.
C22_ConfirmationGates ==
    /\ []C22_State
    /\ [][C22_Declined(command, log') =>
              UNCHANGED <<envFile, regFile, aliasFile, bashrc, fs, symfonyDir, vueDir>>]_vars

\* a nuke confirmed at its prompt in which every phase failed and which
\* returned True all the same
C22_Witness ==
    /\ command = "nuke"
    /\ ~force
    /\ Finished
    /\ C22_Asked(log) # <<>>
    /\ Len(C22_Effects(log)) = 5
    /\ \A k \in 1..5 : ~C22_Effects(log)[k].ok
    /\ ret = "True"

====
